---------------------------- MODULE Spec2Model ----------------------------
(***************************************************************************)
(* Model of the tokenator Figma plugin (benlister/tokenator).              *)
(*                                                                         *)
(* The plugin scans the nodes of the active page for spacing and corner    *)
(* radius values that are not bound to a design variable ("token"), marks  *)
(* them, and binds them to a token of exactly the same value on request.   *)
(*                                                                         *)
(* Two snapshots of the plugin are modelled side by side:                  *)
(*   src/figma-api.d.ts  the collection-aware plugin (spacing + radius),   *)
(*                       token lists cached per collection key;            *)
(*   src/code.ts         the spacing-only plugin, whose getSpacingVariables*)
(*                       keeps one cache slot with a 5 minute lifetime.    *)
(* The variable `variant` says which getSpacingVariables is linked in.     *)
(* Everything else (aggregation, detection policy, binder, reverter) is    *)
(* textually the same in both files.                                       *)
(* Of a third, earlier snapshot, src/unnamed/part_001, the token source is *)
(* modelled (variant "unbatched"): its getSpacingVariables has no cache    *)
(* and its aggregation imports every published variable, one at a time.    *)
(***************************************************************************)
EXTENDS Integers, Sequences, FiniteSets, TLC

VARIABLES
    variant,                \* "single" (src/code.ts), "byCollection" (src/figma-api.d.ts)
                            \* or "unbatched" (src/unnamed/part_001)
    caps,                   \* capability flags probed at load
    localVariables,         \* host: result of getLocalVariablesAsync
    libraryCollections,     \* host: library collections, each with its variable stubs
    nodeType,               \* host: node -> type tag
    layoutMode,             \* host: node -> "NONE" | "HORIZONTAL" | "VERTICAL"
    value,                  \* host: node -> property -> number
    boundVariables,         \* host: node -> property -> bound variable id | NoBinding
    selection,              \* host: figma.currentPage.selection (sequence of nodes)
    markers,                \* host: marker shapes on the page, in creation order
    now,                    \* host: Date.now()
    cachedSpacingTokensByCollection,
    cachedBorderRadiusTokensByCollection,
    cachedSpacingTokens,
    cachedBorderRadiusTokens,
    cacheTimestamp,
    borderRadiusCacheTimestamp,
    cachedCollections,      \* the collection list getAvailableCollections keeps, or null
    collectionsTimestamp,
    calls,                  \* the requests suspended in an aggregation, one record per slot
    returned,               \* what the function that finished last returned to its caller
    ui,                     \* what the handler run that finished last posted to the UI and
                            \* notified, and how many error messages the UI has received
    populatedAt,            \* history: category -> key -> time the last populate completed
    allVariables,           \* the list the last getAllVariablesAndImportLibraries run returned
    runs,                   \* the aggregation of each request slot, host call by host call
    refreshRequestedAt      \* history: time the last answered refresh-variables arrived

vars == << variant, caps, localVariables, libraryCollections, nodeType, layoutMode,
           value, boundVariables, selection, markers, now,
           cachedSpacingTokensByCollection, cachedBorderRadiusTokensByCollection,
           cachedSpacingTokens, cachedBorderRadiusTokens, cacheTimestamp,
           borderRadiusCacheTimestamp, cachedCollections, collectionsTimestamp, calls,
           returned, ui, populatedAt, allVariables, runs, refreshRequestedAt >>

hostVariables == << localVariables, libraryCollections >>
document      == << nodeType, layoutMode, value, boundVariables, selection >>
caches        == << cachedSpacingTokensByCollection, cachedBorderRadiusTokensByCollection,
                    cachedSpacingTokens, cachedBorderRadiusTokens, cacheTimestamp,
                    borderRadiusCacheTimestamp >>
collectionsCache == << cachedCollections, collectionsTimestamp >>
\* what the token requests, the walks and the sweeps leave alone
elsewhere     == << collectionsCache, runs, refreshRequestedAt >>

-----------------------------------------------------------------------------
(* Bounds of the model *)

NumNodes == 3       \* nodes of the page: 1 (top level, parent of 2), 2, 3 (top level)
MaxCalls == 1       \* request slots (requests in flight at once)
MaxTicks == 2       \* the clock stops after this many ticks
MaxFaults == 1      \* host calls that fail in one fix or revert run
MaxErrors == 1      \* handler runs that end in the handler's catch block

Nodes == 1..NumNodes
Calls == 1..MaxCalls

-----------------------------------------------------------------------------
(* Program constants *)

CACHE_DURATION == 5 * 60 * 1000
BATCH_SIZE == 5
TickMs == CACHE_DURATION \div 2

-----------------------------------------------------------------------------
(* Data *)

SpacingProps == <<"itemSpacing", "paddingTop", "paddingBottom", "paddingLeft", "paddingRight">>
RadiusProps  == <<"topLeftRadius", "topRightRadius", "bottomLeftRadius", "bottomRightRadius">>
PaddingProps == {"paddingTop", "paddingBottom", "paddingLeft", "paddingRight"}
AllProps == {"itemSpacing"} \cup PaddingProps
            \cup {"topLeftRadius", "topRightRadius", "bottomLeftRadius", "bottomRightRadius"}

NoBinding == "undefined"

Range(s) == {s[i] : i \in 1..Len(s)}

\* `null` where a token is expected
Null == [id |-> "null", key |-> "null", name |-> "null", value |-> -1, collection |-> "null"]

\* the page tree: node 1 holds node 2; nodes 1 and 3 (and the markers) are top level.
\* Nodes past the third are further top-level nodes.
Children(n) == IF n = 1 THEN <<2>> ELSE <<>>
TopLevel == [i \in 1..(NumNodes - 1) |-> IF i = 1 THEN 1 ELSE i + 1]


-----------------------------------------------------------------------------
(* Token index: tokensByValue and findMatchingTokenByValue *)

Max(S) == CHOOSE x \in S : \A y \in S : y <= x

\* a slip the index could have: the first token of a value is kept
tokensByValue_firstWins(tokens) ==
    [v \in {tokens[i].value : i \in 1..Len(tokens)} |->
        tokens[CHOOSE i \in 1..Len(tokens) :
                  tokens[i].value = v /\ \A j \in 1..(i - 1) : tokens[j].value # v]]

\* new Map(); tokens.forEach(token => map.set(token.value, token)): a later
\* token of the same value overwrites an earlier one
tokensByValue(tokens) ==
    [v \in {tokens[i].value : i \in 1..Len(tokens)} |->
        tokens[Max({i \in 1..Len(tokens) : tokens[i].value = v})]]

\* the earliest variant's fallback: the token whose value is closest to v
findClosestTokenByValue(index, v) ==
    IF v \in DOMAIN index THEN index[v]
    ELSE IF DOMAIN index = {} THEN Null
    ELSE index[CHOOSE w \in DOMAIN index :
                 \A u \in DOMAIN index :
                     (IF w > v THEN w - v ELSE v - w) <= (IF u > v THEN u - v ELSE v - u)]

\* tokensByValue.get(value) || null
findMatchingTokenByValue(index, v) ==
    IF v \in DOMAIN index THEN index[v] ELSE Null

-----------------------------------------------------------------------------
(* Spacing detection policy: findSpacingIssues.checkNode *)

Issue(n, property, v, token) ==
    [node |-> n, property |-> property, currentValue |-> v, matchingToken |-> token]

isAutoLayoutNode(n) == nodeType[n] \in {"FRAME", "COMPONENT", "INSTANCE"}

\* node.boundVariables?.[propertyName] !== undefined
isIndividualPaddingBound(n, p) == boundVariables[n][p] # NoBinding

isHorizontalPaddingBound(n) ==
    isIndividualPaddingBound(n, "paddingLeft") /\ isIndividualPaddingBound(n, "paddingRight")

isVerticalPaddingBound(n) ==
    isIndividualPaddingBound(n, "paddingTop") /\ isIndividualPaddingBound(n, "paddingBottom")

allPaddingsSameAndPositive(n) ==
    /\ value[n]["paddingTop"] > 0
    /\ value[n]["paddingTop"] = value[n]["paddingBottom"]
    /\ value[n]["paddingTop"] = value[n]["paddingLeft"]
    /\ value[n]["paddingTop"] = value[n]["paddingRight"]

itemSpacingIssues(n, index) ==
    IF value[n]["itemSpacing"] > 0 /\ ~isIndividualPaddingBound(n, "itemSpacing")
    THEN << Issue(n, "itemSpacing", value[n]["itemSpacing"],
                  findMatchingTokenByValue(index, value[n]["itemSpacing"])) >>
    ELSE << >>

\* one edge on its own; `pairOpen` is the code's
\* (edge === otherEdge && !isXxxPaddingBound(node))
individualPaddingIssues(n, index, p, pairOpen) ==
    IF /\ value[n][p] > 0
       /\ ~isIndividualPaddingBound(n, p)
       /\ ~allPaddingsSameAndPositive(n)
       /\ ~pairOpen
    THEN << Issue(n, p, value[n][p], findMatchingTokenByValue(index, value[n][p])) >>
    ELSE << >>

horizontalPaddingIssues(n, index) ==
    LET l == value[n]["paddingLeft"]
        r == value[n]["paddingRight"]
    IN  IF l > 0 /\ l = r /\ ~allPaddingsSameAndPositive(n) /\ ~isHorizontalPaddingBound(n)
        THEN << Issue(n, "horizontalPadding", l, findMatchingTokenByValue(index, l)) >>
        ELSE individualPaddingIssues(n, index, "paddingLeft",
                                     l = r /\ ~isHorizontalPaddingBound(n))
             \o individualPaddingIssues(n, index, "paddingRight",
                                        l = r /\ ~isHorizontalPaddingBound(n))

verticalPaddingIssues(n, index) ==
    LET t == value[n]["paddingTop"]
        b == value[n]["paddingBottom"]
    IN  IF t > 0 /\ t = b /\ ~allPaddingsSameAndPositive(n) /\ ~isVerticalPaddingBound(n)
        THEN << Issue(n, "verticalPadding", t, findMatchingTokenByValue(index, t)) >>
        ELSE individualPaddingIssues(n, index, "paddingTop",
                                     t = b /\ ~isVerticalPaddingBound(n))
             \o individualPaddingIssues(n, index, "paddingBottom",
                                        t = b /\ ~isVerticalPaddingBound(n))

\* a slip the policy could have: the pair checks run after the uniform case too
paddingIssues_noElse(n, index) ==
    LET t == value[n]["paddingTop"]
        l == value[n]["paddingLeft"]
    IN  (IF /\ allPaddingsSameAndPositive(n)
            /\ \A p \in PaddingProps : ~isIndividualPaddingBound(n, p)
         THEN << Issue(n, "paddingAll", t, findMatchingTokenByValue(index, t)) >>
         ELSE << >>)
        \o (IF l > 0 /\ l = value[n]["paddingRight"] /\ ~isHorizontalPaddingBound(n)
            THEN << Issue(n, "horizontalPadding", l, findMatchingTokenByValue(index, l)) >>
            ELSE << >>)
        \o (IF t > 0 /\ t = value[n]["paddingBottom"] /\ ~isVerticalPaddingBound(n)
            THEN << Issue(n, "verticalPadding", t, findMatchingTokenByValue(index, t)) >>
            ELSE << >>)

paddingIssues(n, index) ==
    IF /\ allPaddingsSameAndPositive(n)
       /\ ~isIndividualPaddingBound(n, "paddingTop")
       /\ ~isIndividualPaddingBound(n, "paddingBottom")
       /\ ~isIndividualPaddingBound(n, "paddingLeft")
       /\ ~isIndividualPaddingBound(n, "paddingRight")
    THEN << Issue(n, "paddingAll", value[n]["paddingTop"],
                  findMatchingTokenByValue(index, value[n]["paddingTop"])) >>
    ELSE horizontalPaddingIssues(n, index) \o verticalPaddingIssues(n, index)

\* the issues checkNode pushes for the node itself, in order
spacingIssuesOfNode(n, index) ==
    IF isAutoLayoutNode(n) /\ layoutMode[n] # "NONE"
    THEN itemSpacingIssues(n, index) \o paddingIssues(n, index)
    ELSE << >>

-----------------------------------------------------------------------------
(* Border radius detection policy: findBorderRadiusIssues.checkNode *)

isBorderRadiusNode(n) == nodeType[n] \in {"FRAME", "COMPONENT", "INSTANCE", "RECTANGLE"}

\* 'topLeftRadius' in node && ...: every type isBorderRadiusNode accepts has the four fields
hasRadiusProperties(n) == nodeType[n] \in {"FRAME", "COMPONENT", "INSTANCE", "RECTANGLE"}

isIndividualRadiusBound(n, p) == boundVariables[n][p] # NoBinding

areAllRadiiSameAndPositive(n) ==
    /\ hasRadiusProperties(n)
    /\ value[n]["topLeftRadius"] > 0
    /\ value[n]["topLeftRadius"] = value[n]["topRightRadius"]
    /\ value[n]["topLeftRadius"] = value[n]["bottomLeftRadius"]
    /\ value[n]["topLeftRadius"] = value[n]["bottomRightRadius"]

areAllRadiiBound(n) ==
    /\ isIndividualRadiusBound(n, "topLeftRadius")
    /\ isIndividualRadiusBound(n, "topRightRadius")
    /\ isIndividualRadiusBound(n, "bottomLeftRadius")
    /\ isIndividualRadiusBound(n, "bottomRightRadius")

cornerIssues(n, index, p) ==
    IF value[n][p] > 0 /\ ~isIndividualRadiusBound(n, p) /\ ~areAllRadiiSameAndPositive(n)
    THEN << Issue(n, p, value[n][p], findMatchingTokenByValue(index, value[n][p])) >>
    ELSE << >>

\* a slip the policy could have: no uniform shortcut, every corner on its own
radiusIssuesOfNode_cornersOnly(n, index) ==
    IF isBorderRadiusNode(n) /\ hasRadiusProperties(n)
    THEN LET corner(p) ==
                 IF value[n][p] > 0 /\ ~isIndividualRadiusBound(n, p)
                 THEN << Issue(n, p, value[n][p], findMatchingTokenByValue(index, value[n][p])) >>
                 ELSE << >>
         IN  corner("topLeftRadius") \o corner("topRightRadius")
             \o corner("bottomLeftRadius") \o corner("bottomRightRadius")
    ELSE << >>

radiusIssuesOfNode(n, index) ==
    IF isBorderRadiusNode(n) /\ hasRadiusProperties(n)
    THEN IF areAllRadiiSameAndPositive(n) /\ ~areAllRadiiBound(n)
         THEN << Issue(n, "borderRadiusAll", value[n]["topLeftRadius"],
                       findMatchingTokenByValue(index, value[n]["topLeftRadius"])) >>
         ELSE cornerIssues(n, index, "topLeftRadius")
              \o cornerIssues(n, index, "topRightRadius")
              \o cornerIssues(n, index, "bottomLeftRadius")
              \o cornerIssues(n, index, "bottomRightRadius")
    ELSE << >>

-----------------------------------------------------------------------------
(* The walk: checkNode recursion and scope selection *)

RECURSIVE Concat(_)
Concat(ss) == IF ss = << >> THEN << >> ELSE Head(ss) \o Concat(Tail(ss))

\* "children" in node: containers only
hasChildren(n) == nodeType[n] \in {"FRAME", "COMPONENT", "INSTANCE", "GROUP", "COMPONENT_SET"}

\* checkNode of the spacing detector: the node, then its children, depth first
RECURSIVE checkNodeSpacing(_, _)
checkNodeSpacing(n, index) ==
    spacingIssuesOfNode(n, index)
    \o (IF hasChildren(n)
        THEN Concat([i \in 1..Len(Children(n)) |-> checkNodeSpacing(Children(n)[i], index)])
        ELSE << >>)

RECURSIVE checkNodeRadius(_, _)
checkNodeRadius(n, index) ==
    radiusIssuesOfNode(n, index)
    \o (IF hasChildren(n)
        THEN Concat([i \in 1..Len(Children(n)) |-> checkNodeRadius(Children(n)[i], index)])
        ELSE << >>)

\* a slip the scope could have: the whole page, whatever is selected
nodesToCheck_page == TopLevel

\* selection.length > 0 ? selection : figma.currentPage.children
\* (marker shapes are page children too; they are ellipses and 8x8 rectangles of
\* radius 0 without children, so neither detector emits anything for them)
nodesToCheck == IF Len(selection) > 0 THEN selection ELSE TopLevel

\* the issue list findSpacingIssues returns for a token list
spacingWalk(tokens) ==
    Concat([i \in 1..Len(nodesToCheck) |->
              checkNodeSpacing(nodesToCheck[i], tokensByValue(tokens))])

radiusWalk(tokens) ==
    Concat([i \in 1..Len(nodesToCheck) |->
              checkNodeRadius(nodesToCheck[i], tokensByValue(tokens))])

-----------------------------------------------------------------------------
(* Token source aggregator: getAllVariablesAndImportLibraries *)

\* A host variable: [id, key, name, resolvedType, variableCollectionId, modes], modes
\* being the values of valuesByMode in key order, each [kind, v] with kind "number"
\* for a plain number and "alias" for anything else.
\* A library collection: [key, variables], variables being the published variables
\* whose stubs (key, name) getVariablesInLibraryCollectionAsync lists.

\* /space|spacing|gap|padding|margin|size|grid/i.test(name), on the names of the model
isSpacingName(name) == name \in {"space-md", "gap-lg", "corner-size", "Spacing/8"}

\* /radius|corner|rounded|border.*radius|br-/i.test(name), on the names of the model
isBorderRadiusName(name) == name \in {"radius-sm", "corner-size"}

\* the stubs kept for import: spacing OR radius names (figma-api.d.ts), spacing
\* names only in the spacing-only plugin (code.ts), every stub in part_001
isRelevantStub(name) ==
    IF variant = "single" THEN isSpacingName(name)
    ELSE IF variant = "unbatched" THEN TRUE
    ELSE isSpacingName(name) \/ isBorderRadiusName(name)

\* importVariableByKeyAsync(key): the host resolves a key to the one published
\* variable that has it (the first one of that key in listing order)
RECURSIVE firstWithKey(_, _)
firstWithKey(vs, key) ==
    IF vs = << >> THEN Null
    ELSE IF Head(vs).key = key THEN Head(vs) ELSE firstWithKey(Tail(vs), key)

importVariableByKey(key) ==
    firstWithKey(Concat([i \in 1..Len(libraryCollections) |-> libraryCollections[i].variables]),
                 key)

\* allVariables.push / processedVariableKeys.add, guarded by the has() test; acc is
\* [list, keys]; a null entry (failed or skipped import) is passed over
pushIfUnseen(acc, v) ==
    IF v.id # "null" /\ v.key \notin acc.keys
    THEN [list |-> Append(acc.list, v), keys |-> acc.keys \cup {v.key}]
    ELSE acc

\* a slip the insertion could have: no second has() test after the batch resolved
pushResolved_unchecked(acc, v) ==
    IF v.id # "null"
    THEN [list |-> Append(acc.list, v), keys |-> acc.keys \cup {v.key}]
    ELSE acc

\* batchResults.forEach(variable => if (variable && !processed.has(variable.key)) ...)
pushResolved(acc, v) == pushIfUnseen(acc, v)

RECURSIVE insertResolved(_, _)
insertResolved(acc, vs) ==
    IF vs = << >> THEN acc ELSE insertResolved(pushResolved(acc, Head(vs)), Tail(vs))

RECURSIVE insertLocal(_, _)
insertLocal(acc, vs) ==
    IF vs = << >> THEN acc ELSE insertLocal(pushIfUnseen(acc, Head(vs)), Tail(vs))

\* one batch: every stub of the slice is tested against the processed keys as they
\* are when the batch starts, the unseen ones are imported concurrently, and the
\* results are inserted in slice order once all have settled.
\* failed: the positions (in the filtered list) whose import throws.
batchResults(acc, relevant, from, failed) ==
    [j \in 1..(IF from + BATCH_SIZE - 1 <= Len(relevant)
               THEN BATCH_SIZE ELSE Len(relevant) - from + 1) |->
        LET pos == from + j - 1
        IN  IF relevant[pos].key \notin acc.keys /\ pos \notin failed
            THEN importVariableByKey(relevant[pos].key)
            ELSE Null]

RECURSIVE processBatches(_, _, _, _)
processBatches(acc, relevant, from, failed) ==
    IF from > Len(relevant) THEN acc
    ELSE processBatches(insertResolved(acc, batchResults(acc, relevant, from, failed)),
                        relevant, from + BATCH_SIZE, failed)

\* a slip the loop could have: every stub is kept for import
relevantVariables_all(coll) == coll.variables

\* libraryVariablesInCollection.filter(...)
relevantVariables(coll) == SelectSeq(coll.variables, LAMBDA v : isRelevantStub(v.name))

\* the loop over the library collections. fail.collections: the collections whose
\* listing throws; fail.imports[ci]: the failed positions in collection ci
RECURSIVE processCollections(_, _, _)
processCollections(acc, ci, fail) ==
    IF ci > Len(libraryCollections) THEN acc
    ELSE processCollections(
            IF ci \in fail.collections THEN acc
            ELSE processBatches(acc, relevantVariables(libraryCollections[ci]), 1,
                                fail.imports[ci]),
            ci + 1, fail)

\* part_001, the stubs of one collection from position pos on: each stub whose key
\* is unseen is imported and pushed before the next one is looked at; a failed
\* import is logged and passed over
RECURSIVE importOneByOne(_, _, _, _)
importOneByOne(acc, stubs, pos, failed) ==
    IF pos > Len(stubs) THEN acc
    ELSE importOneByOne(IF stubs[pos].key \notin acc.keys /\ pos \notin failed
                        THEN LET v == importVariableByKey(stubs[pos].key)
                             IN  [list |-> Append(acc.list, v), keys |-> acc.keys \cup {v.key}]
                        ELSE acc,
                        stubs, pos + 1, failed)

\* part_001, the loop over the library collections: the listing of a collection
\* is inside the one try block of the library part only, so when it throws the
\* loop is left and the collections after it are not visited
RECURSIVE processCollectionsUnbatched(_, _, _)
processCollectionsUnbatched(acc, ci, fail) ==
    IF ci > Len(libraryCollections) \/ ci \in fail.collections THEN acc
    ELSE processCollectionsUnbatched(
            importOneByOne(acc, libraryCollections[ci].variables, 1, fail.imports[ci]),
            ci + 1, fail)

\* fail: [local, listing: BOOLEAN, collections: set, imports: collection -> set]
getAllVariablesAndImportLibraries(fail) ==
    IF ~caps.hasVariablesAPI \/ ~caps.hasImportVariableByKey THEN << >>
    ELSE LET empty == [list |-> << >>, keys |-> {}]
             afterLocal == IF caps.hasGetLocalVariables /\ ~fail.local
                           THEN insertLocal(empty, localVariables)
                           ELSE empty
             afterLibraries == IF caps.hasTeamLibraryAPI /\ ~fail.listing
                               THEN (IF variant = "unbatched"
                                     THEN processCollectionsUnbatched(afterLocal, 1, fail)
                                     ELSE processCollections(afterLocal, 1, fail))
                               ELSE afterLocal
         IN  afterLibraries.list

\* the host failures one aggregation run can meet
Failures ==
    { f \in [local : BOOLEAN, listing : BOOLEAN,
             collections : SUBSET (1..Len(libraryCollections)),
             imports : [1..Len(libraryCollections) ->
                          SUBSET (1..Max({0} \cup {Len(libraryCollections[ci].variables) :
                                                     ci \in 1..Len(libraryCollections)}))]] :
        \A ci \in 1..Len(libraryCollections) :
            f.imports[ci] \subseteq 1..Len(relevantVariables(libraryCollections[ci])) }

NoFailure ==
    [local |-> FALSE, listing |-> FALSE, collections |-> {},
     imports |-> [ci \in 1..Len(libraryCollections) |-> {}]]

-----------------------------------------------------------------------------
(* The aggregation host call by host call (src/figma-api.d.ts, src/code.ts) *)

\* where one run of getAllVariablesAndImportLibraries stands:
\*   pc           "idle", or the await it is suspended in: "local"
\*                (getLocalVariablesAsync), "listing" (getAvailableLibraryVariable-
\*                CollectionsAsync), "collection" (getVariablesInLibraryCollectionAsync
\*                of collection ci), "batch" (Promise.all of the imports of the batch
\*                that starts at position `from`), "pause" (the 50 ms timer), or "done"
\*   outstanding  the positions of the batch whose import has not settled
\*   results      position -> what its batchPromise resolved to (null until then)
\*   acc          allVariables and processedVariableKeys
\*   faults       the host calls of the run that threw
\*   hostCalls    the host calls the run has made
IdleRun ==
    [pc |-> "idle", ci |-> 0, from |-> 0, outstanding |-> {}, results |-> << >>,
     acc |-> [list |-> << >>, keys |-> {}], faults |-> 0, hostCalls |-> 0]

Min(a, b) == IF a <= b THEN a ELSE b

\* a slip the loop could have: every stub left is imported at once
batchOf_rest(relevant, from) == from..Len(relevant)

\* relevantVariables.slice(i, i + BATCH_SIZE), as positions of the filtered list
batchOf(relevant, from) == from..Min(from + BATCH_SIZE - 1, Len(relevant))

\* if (hasTeamLibraryAPI): the collections are asked for, or the function returns
enterLibraries(r) ==
    IF caps.hasTeamLibraryAPI
    THEN [r EXCEPT !.pc = "listing", !.hostCalls = @ + 1]
    ELSE [r EXCEPT !.pc = "done"]

\* for (const libCollection of libraryCollections): the variables of collection ci
\* are asked for, or the loop is over
enterCollection(r, ci) ==
    IF ci > Len(libraryCollections) THEN [r EXCEPT !.pc = "done"]
    ELSE [r EXCEPT !.pc = "collection", !.ci = ci, !.hostCalls = @ + 1]

\* for (let i = 0; i < relevantVariables.length; i += BATCH_SIZE): batch.map runs
\* every batchPromise up to its await, so the stubs whose key is unseen now are
\* all asked for before any of them settles; past the last stub the collection is
\* done
enterBatch(r, from) ==
    LET relevant == relevantVariables(libraryCollections[r.ci])
        unseen   == {pos \in batchOf(relevant, from) : relevant[pos].key \notin r.acc.keys}
    IN  IF from > Len(relevant) THEN enterCollection(r, r.ci + 1)
        ELSE [r EXCEPT !.pc = "batch", !.from = from, !.outstanding = unseen,
                       !.results = [pos \in batchOf(relevant, from) |-> Null],
                       !.hostCalls = @ + Cardinality(unseen)]

\* a slip the function could have: no capability test
beginRun_untested ==
    IF caps.hasGetLocalVariables
    THEN [IdleRun EXCEPT !.pc = "local", !.hostCalls = 1]
    ELSE enterLibraries(IdleRun)

\* the first turn of the function: the capability test, then the first host call
beginRun ==
    IF ~caps.hasVariablesAPI \/ ~caps.hasImportVariableByKey
    THEN [IdleRun EXCEPT !.pc = "done"]
    ELSE IF caps.hasGetLocalVariables
    THEN [IdleRun EXCEPT !.pc = "local", !.hostCalls = 1]
    ELSE enterLibraries(IdleRun)

\* getLocalVariablesAsync settles: the records are pushed, or the catch logs
localSettles(r, ok) ==
    enterLibraries(IF ok THEN [r EXCEPT !.acc = insertLocal(r.acc, localVariables)]
                   ELSE [r EXCEPT !.faults = @ + 1])

\* getAvailableLibraryVariableCollectionsAsync settles
listingSettles(r, ok) ==
    IF ok THEN enterCollection(r, 1) ELSE [r EXCEPT !.pc = "done", !.faults = @ + 1]

\* getVariablesInLibraryCollectionAsync settles: filter and first batch, or the
\* catch of this collection logs and the loop goes on
collectionSettles(r, ok) ==
    IF ok THEN enterBatch(r, 1)
    ELSE enterCollection([r EXCEPT !.faults = @ + 1], r.ci + 1)

\* importVariableByKeyAsync of the stub at pos settles: its batchPromise resolves
\* to the variable, or to null from the catch
importSettles(r, pos, ok) ==
    LET relevant == relevantVariables(libraryCollections[r.ci])
    IN  [r EXCEPT !.outstanding = @ \ {pos},
                  !.results[pos] = IF ok THEN importVariableByKey(relevant[pos].key) ELSE Null,
                  !.faults = IF ok THEN @ ELSE @ + 1]

\* Promise.all resolves: batchResults.forEach pushes in slice order; then the timer
\* if stubs are left, else the loop test
joinBatch(r) ==
    LET relevant == relevantVariables(libraryCollections[r.ci])
        slice    == [j \in 1..Cardinality(DOMAIN r.results) |-> r.results[r.from + j - 1]]
        pushed   == [r EXCEPT !.acc = insertResolved(r.acc, slice), !.results = << >>]
    IN  IF r.from + BATCH_SIZE <= Len(relevant)
        THEN [pushed EXCEPT !.pc = "pause"]
        ELSE enterBatch(pushed, r.from + BATCH_SIZE)

\* the timer fires
pauseEnds(r) == enterBatch(r, r.from + BATCH_SIZE)

-----------------------------------------------------------------------------
(* Token classifier: the loop of getSpacingVariables / getBorderRadiusVariables *)

Token(v) ==
    [id |-> v.id, key |-> v.key, name |-> v.name, value |-> v.modes[1].v,
     collection |-> v.variableCollectionId]

isCategoryName(category, name) ==
    IF category = "spacing" THEN isSpacingName(name) ELSE isBorderRadiusName(name)

\* a slip the classifier could have: no test of the sign
isToken_anySign(v, category, key) ==
    /\ v.resolvedType = "FLOAT"
    /\ (key # "all" => v.variableCollectionId = key)
    /\ Len(v.modes) # 0
    /\ v.modes[1].kind = "number"
    /\ isCategoryName(category, v.name)

\* key is the cache key: "all" when no collection filter was passed
isToken(v, category, key) ==
    /\ v.resolvedType = "FLOAT"
    /\ (key # "all" => v.variableCollectionId = key)
    /\ Len(v.modes) # 0
    /\ v.modes[1].kind = "number"
    /\ v.modes[1].v >= 0
    /\ isCategoryName(category, v.name)

RECURSIVE classify(_, _, _)
classify(vs, category, key) ==
    IF vs = << >> THEN << >>
    ELSE (IF isToken(Head(vs), category, key) THEN << Token(Head(vs)) >> ELSE << >>)
         \o classify(Tail(vs), category, key)

-----------------------------------------------------------------------------
(* Marker annotator: addMarkerToNode and clearMarkers *)

Marker(n, canFix, issueType) ==
    [type |-> IF issueType = "borderRadius" THEN "RECTANGLE" ELSE "ELLIPSE",
     name |-> IF issueType = "borderRadius"
              THEN (IF canFix THEN "Can Fix Border Radius" ELSE "No Radius Token")
              ELSE (IF canFix THEN "Can Fix Spacing" ELSE "No Token Match"),
     markerFor |-> n]

\* the new marker is appended, the markers the node has stay
addMarkerToNode_keep(ms, n, canFix, issueType) ==
    Append(ms, Marker(n, canFix, issueType))

\* existing markers of the node are removed, the new one is appended to the page
addMarkerToNode(ms, n, canFix, issueType) ==
    Append(SelectSeq(ms, LAMBDA m : m.markerFor # n), Marker(n, canFix, issueType))

\* one addMarkerToNode per pushed issue, in push order
RECURSIVE markIssues(_, _, _)
markIssues(ms, issues, issueType) ==
    IF issues = << >> THEN ms
    ELSE markIssues(addMarkerToNode(ms, Head(issues).node,
                                    Head(issues).matchingToken.id # "null", issueType),
                    Tail(issues), issueType)

\* getPluginData("markerFor") of a shape the plugin has not tagged: ""
NoTag == 0

\* a test that goes by the type and the name of the shape alone
isMarker_byName(m) ==
    /\ m.type \in (IF variant = "single" THEN {"ELLIPSE"} ELSE {"ELLIPSE", "RECTANGLE"})
    /\ m.name \in (IF variant = "single"
                   THEN {"No Token Match", "Can Fix Spacing", "Spacing Issue", "Color Issue"}
                   ELSE {"No Token Match", "Can Fix Spacing", "No Radius Token",
                         "Can Fix Border Radius", "Spacing Issue", "Color Issue"})

\* the filter of clearMarkers: the type, the name, and a markerFor tag
isMarker(m) ==
    /\ m.type \in (IF variant = "single" THEN {"ELLIPSE"} ELSE {"ELLIPSE", "RECTANGLE"})
    /\ m.name \in (IF variant = "single"
                   THEN {"No Token Match", "Can Fix Spacing", "Spacing Issue", "Color Issue"}
                   ELSE {"No Token Match", "Can Fix Spacing", "No Radius Token",
                         "Can Fix Border Radius", "Spacing Issue", "Color Issue"})
    /\ m.markerFor # NoTag

\* the page children that stay after clearMarkers
clearMarkers(ms) == SelectSeq(ms, LAMBDA m : ~isMarker(m))

-----------------------------------------------------------------------------
(* Binder: trySetBoundVariable / trySetBoundVariableRadius and the fix loops *)

\* what the host does with node.setBoundVariable(property, variable)
BindOutcomes == {"bound", "throws", "ignored"}

\* token.variableObject: the host's variable of this id as it is now, local or
\* published
hostVariable(id) ==
    LET all == localVariables
               \o Concat([i \in 1..Len(libraryCollections) |-> libraryCollections[i].variables])
    IN  all[CHOOSE i \in 1..Len(all) : all[i].id = id /\ \A j \in 1..(i - 1) : all[j].id # id]

\* the value a property bound to the variable shows: the variable's value as it is
\* now (in the first mode), whatever the token list says
resolvedValue(id) == hostVariable(id).modes[1].v

\* what the host does with each of the calls of one run: every call has the good
\* outcome but for at most MaxFaults of them
hostOutcomes(targets, outcomes, good) ==
    { [t \in targets |-> IF t \in DOMAIN f THEN f[t] ELSE good] :
        f \in UNION { [S -> outcomes \ {good}] :
                        S \in {T \in SUBSET targets : Cardinality(T) <= MaxFaults} } }

\* a slip the binder could have: the bind is taken as done when the host call
\* returns, without reading the binding back
trySetBoundVariable_unverified(st, n, p, token, outcome) ==
    LET bv2  == IF outcome = "bound"
                THEN [st.bv EXCEPT ![n][p] = token.id] ELSE st.bv
        val2 == IF outcome = "bound"
                THEN [st.val EXCEPT ![n][p] = resolvedValue(token.id)] ELSE st.val
    IN  [val |-> val2, bv |-> bv2, fixed |-> st.fixed,
         log |-> Append(st.log, [node |-> n, property |-> p, token |-> token.id,
                                 ok |-> outcome # "throws", threw |-> outcome = "throws"])]

\* st is [val, bv, fixed, log]: the document being edited, the fixed count and
\* the console log of the bind attempts
trySetBoundVariable(st, n, p, token, outcome) ==
    LET bv2  == IF outcome = "bound"
                THEN [st.bv EXCEPT ![n][p] = token.id] ELSE st.bv
        \* a bound property resolves to its variable's value
        val2 == IF outcome = "bound"
                THEN [st.val EXCEPT ![n][p] = resolvedValue(token.id)] ELSE st.val
        \* boundVariableAlias && boundVariableAlias.id === token.id
        ok   == outcome # "throws" /\ bv2[n][p] # NoBinding /\ bv2[n][p] = token.id
    IN  [val |-> val2, bv |-> bv2, fixed |-> st.fixed,
         \* one console line per attempt: "Successfully bound" (ok), "Verification
         \* failed" (neither ok nor threw) or "Error binding" (threw)
         log |-> Append(st.log, [node |-> n, property |-> p, token |-> token.id,
                                 ok |-> ok, threw |-> outcome = "throws"])]

propsToBind(property) ==
    CASE property = "paddingAll" ->
            <<"paddingTop", "paddingBottom", "paddingLeft", "paddingRight">>
      [] property = "horizontalPadding" -> <<"paddingLeft", "paddingRight">>
      [] property = "verticalPadding" -> <<"paddingTop", "paddingBottom">>
      [] property = "borderRadiusAll" ->
            <<"topLeftRadius", "topRightRadius", "bottomLeftRadius", "bottomRightRadius">>
      [] OTHER -> << property >>

\* a slip the loop over propsToBind could have: it stops at the first failed bind
RECURSIVE bindAll_untilFailure(_, _, _, _, _)
bindAll_untilFailure(st, n, props, token, outcomes) ==
    IF props = << >> THEN st
    ELSE LET next == trySetBoundVariable(st, n, Head(props), token,
                                         outcomes[<<n, Head(props)>>])
         IN  IF next.log[Len(next.log)].ok
             THEN bindAll_untilFailure(next, n, Tail(props), token, outcomes)
             ELSE next

RECURSIVE bindAll(_, _, _, _, _)
bindAll(st, n, props, token, outcomes) ==
    IF props = << >> THEN st
    ELSE bindAll(trySetBoundVariable(st, n, Head(props), token, outcomes[<<n, Head(props)>>]),
                 n, Tail(props), token, outcomes)

\* if (issue.matchingToken && issue.matchingToken.variableObject)
isFixable(issue) == issue.matchingToken.id # "null"

\* one turn of the `for (const issue of issues)` loop
fixIssue(st, issue, outcomes) ==
    IF isFixable(issue)
    THEN LET after   == bindAll(st, issue.node, propsToBind(issue.property),
                                issue.matchingToken, outcomes)
             \* success: every bind of this issue returned true
             success == \A i \in (Len(st.log) + 1)..Len(after.log) : after.log[i].ok
         IN  [after EXCEPT !.fixed = IF success THEN @ + 1 ELSE @]
    ELSE st

RECURSIVE fixIssues(_, _, _)
fixIssues(st, issues, outcomes) ==
    IF issues = << >> THEN st
    ELSE fixIssues(fixIssue(st, Head(issues), outcomes), Tail(issues), outcomes)

\* a slip the count could have: every issue that was not fixed counts as unfixable
unfixableCount_notFixed(issues, fixed) == Len(issues) - fixed

\* issues.forEach(issue => { if (!issue.matchingToken) unfixableCount++ })
unfixableCount(issues, fixed) ==
    Cardinality({i \in 1..Len(issues) : issues[i].matchingToken.id = "null"})

\* the (node, property) pairs a fix of these issues asks the host to bind
bindTargets(issues) ==
    UNION { {<<issues[i].node, propsToBind(issues[i].property)[j]>> :
                j \in 1..Len(propsToBind(issues[i].property))} :
            i \in {k \in 1..Len(issues) : isFixable(issues[k])} }

-----------------------------------------------------------------------------
(* Reverter: removeBindingAndSetStatic and the revert sweeps *)

\* what the host does with setBoundVariable(property, null) and the write back
RevertOutcomes == {"reverted", "throwsOnUnbind", "throwsOnWrite"}

\* a slip the reverter could have: no test of the binding, every property is
\* written back and counted
removeBindingAndSetStatic_unchecked(st, n, p, outcome) ==
    [st EXCEPT !.bv[n][p] = NoBinding, !.count = @ + 1,
               !.log = Append(@, [node |-> n, property |-> p, ok |-> TRUE])]

\* a slip the reverter could have: the value is read after the binding is cleared,
\* from a host that shows 0 for a property it has just unbound
removeBindingAndSetStatic_readAfter(st, n, p, outcome) ==
    IF st.bv[n][p] = NoBinding \/ outcome # "reverted" THEN st
    ELSE [st EXCEPT !.bv[n][p] = NoBinding, !.val[n][p] = 0, !.count = @ + 1,
                    !.log = Append(@, [node |-> n, property |-> p, ok |-> TRUE])]

\* st is [val, bv, count, log]: the document being edited, the reverted count and
\* the console log of the reverted properties ("Reverted ...", ok) and of the
\* host errors ("Error removing binding ...", not ok)
removeBindingAndSetStatic(st, n, p, outcome) ==
    IF st.bv[n][p] = NoBinding THEN st
    ELSE LET currentValue == st.val[n][p]
             cleared == [st EXCEPT !.bv[n][p] = NoBinding]
             \* catch (e): console.error, return false
             failed(s) == [s EXCEPT !.log = Append(@, [node |-> n, property |-> p,
                                                       ok |-> FALSE])]
         IN  IF outcome = "throwsOnUnbind" THEN failed(st)
             ELSE IF outcome = "throwsOnWrite" THEN failed(cleared)
             ELSE [cleared EXCEPT !.val[n][p] = currentValue, !.count = @ + 1,
                                  !.log = Append(@, [node |-> n, property |-> p, ok |-> TRUE])]

RECURSIVE revertProps(_, _, _, _)
revertProps(st, n, props, outcomes) ==
    IF props = << >> THEN st
    ELSE revertProps(removeBindingAndSetStatic(st, n, Head(props), outcomes[<<n, Head(props)>>]),
                     n, Tail(props), outcomes)

\* the nodes a walk visits, depth first, in visiting order
RECURSIVE walkFrom(_)
walkFrom(n) ==
    << n >> \o (IF hasChildren(n)
                THEN Concat([i \in 1..Len(Children(n)) |-> walkFrom(Children(n)[i])])
                ELSE << >>)

walkNodes == Concat([i \in 1..Len(nodesToCheck) |-> walkFrom(nodesToCheck[i])])

\* processNode of revertSpacingBindingsToStatic over the visited nodes
RECURSIVE revertSpacing(_, _, _)
revertSpacing(st, ns, outcomes) ==
    IF ns = << >> THEN st
    ELSE revertSpacing(IF isAutoLayoutNode(Head(ns))
                       THEN revertProps(st, Head(ns), SpacingProps, outcomes)
                       ELSE st,
                       Tail(ns), outcomes)

\* the bound (node, property) pairs a spacing revert sweep touches
revertTargets ==
    { <<n, p>> \in Range(walkNodes) \X Range(SpacingProps) :
        isAutoLayoutNode(n) /\ boundVariables[n][p] # NoBinding }

\* processNode of revertAllBindingsToStatic for the node itself: its spacing
\* properties when it is a layout container, then its corner radii when it can
\* carry them; st has a second counter, borderRadius
revertAllOfNode(st, n, outcomes) ==
    LET zero    == [st EXCEPT !.count = 0]
        spacing == IF isAutoLayoutNode(n)
                   THEN revertProps(zero, n, SpacingProps, outcomes) ELSE zero
        radius  == IF isBorderRadiusNode(n)
                   THEN revertProps([spacing EXCEPT !.count = 0], n, RadiusProps, outcomes)
                   ELSE [spacing EXCEPT !.count = 0]
    IN  [radius EXCEPT !.count = st.count + spacing.count,
                       !.borderRadius = st.borderRadius + radius.count]

RECURSIVE revertAll(_, _, _)
revertAll(st, ns, outcomes) ==
    IF ns = << >> THEN st
    ELSE revertAll(revertAllOfNode(st, Head(ns), outcomes), Tail(ns), outcomes)

\* the bound (node, property) pairs a sweep over spacing and radius touches
revertAllTargets ==
    { <<n, p>> \in Range(walkNodes) \X AllProps :
        /\ boundVariables[n][p] # NoBinding
        /\ \/ p \in Range(SpacingProps) /\ isAutoLayoutNode(n)
           \/ p \in Range(RadiusProps) /\ isBorderRadiusNode(n) }

-----------------------------------------------------------------------------
(* Token cache: the head and tail of getSpacingVariables / getBorderRadiusVariables *)

\* cachedSpacingTokens === null
NoCache == << Null >>

\* cachedCollections === null
NoCollections == << [id |-> "null", isLocal |-> FALSE] >>

EmptyMap == [k \in {} |-> << >>]

mapSet(m, k, v) == [x \in DOMAIN m \cup {k} |-> IF x = k THEN v ELSE m[x]]

\* src/code.ts: !forceRefresh && cachedSpacingTokens && (now - cacheTimestamp) < CACHE_DURATION
cacheHitSingle(force) ==
    ~force /\ cachedSpacingTokens # NoCache /\ (now - cacheTimestamp) < CACHE_DURATION

\* src/figma-api.d.ts: !forceRefresh && cachedSpacingTokensByCollection.has(cacheKey)
cacheHitByCollection(category, key, force) ==
    ~force /\ key \in DOMAIN (IF category = "spacing"
                              THEN cachedSpacingTokensByCollection
                              ELSE cachedBorderRadiusTokensByCollection)

cacheHit(category, key, force) ==
    IF variant = "single" THEN cacheHitSingle(force)
    ELSE cacheHitByCollection(category, key, force)

cachedTokens(category, key) ==
    IF variant = "single" THEN cachedSpacingTokens
    ELSE IF category = "spacing" THEN cachedSpacingTokensByCollection[key]
    ELSE cachedBorderRadiusTokensByCollection[key]

\* the tail of getSpacingVariables / getBorderRadiusVariables after the aggregation:
\* the list is stored under the key; the single slot and its timestamp take the
\* `now` read when the call started
storeTokens(category, key, tokens, now0) ==
    IF variant = "unbatched"
    THEN UNCHANGED caches       \* part_001: the list is returned, nothing is kept
    ELSE IF variant = "single"
    THEN /\ cachedSpacingTokens' = tokens
         /\ cacheTimestamp' = now0
         /\ UNCHANGED << cachedSpacingTokensByCollection, cachedBorderRadiusTokensByCollection,
                         cachedBorderRadiusTokens, borderRadiusCacheTimestamp >>
    ELSE IF category = "spacing"
    THEN /\ cachedSpacingTokensByCollection' = mapSet(cachedSpacingTokensByCollection, key, tokens)
         /\ cachedSpacingTokens' = IF key = "all" THEN tokens ELSE cachedSpacingTokens
         /\ cacheTimestamp' = IF key = "all" THEN now0 ELSE cacheTimestamp
         /\ UNCHANGED << cachedBorderRadiusTokensByCollection, cachedBorderRadiusTokens,
                         borderRadiusCacheTimestamp >>
    ELSE /\ cachedBorderRadiusTokensByCollection' =
                mapSet(cachedBorderRadiusTokensByCollection, key, tokens)
         /\ cachedBorderRadiusTokens' = IF key = "all" THEN tokens ELSE cachedBorderRadiusTokens
         /\ borderRadiusCacheTimestamp' = IF key = "all" THEN now0 ELSE borderRadiusCacheTimestamp
         /\ UNCHANGED << cachedSpacingTokensByCollection, cachedSpacingTokens, cacheTimestamp >>

-----------------------------------------------------------------------------
(* Requests *)

\* the functions a request enters ("find-spacing-issues" is the message handler:
\* clearMarkers, then findSpacingIssues)
TokenFns  == {"getSpacingVariables", "getBorderRadiusVariables"}
FixFns    == {"fixSpacingIssues", "fixBorderRadiusIssues"}
RadiusFns == {"getBorderRadiusVariables", "findBorderRadiusIssues", "fixBorderRadiusIssues"}

categoryOf(fn) == IF fn \in RadiusFns THEN "radius" ELSE "spacing"

\* a request slot: idle, or suspended in `await getAllVariablesAndImportLibraries()`
\* with the arguments and the `now` the function read when it was entered
\* (find-all-issues awaits two aggregations: pending holds the categories it still
\* waits for, issues and radiusIssues the lists of the walks it has run)
IdleCall ==
    [pc |-> "idle", fn |-> "none", key |-> "all", force |-> FALSE, now0 |-> 0,
     pending |-> {}, issues |-> << >>, radiusIssues |-> << >>]

\* what a function returns: its arguments, whether it ran an aggregation, the token
\* list it used, the issues it found, its counts, and the console log of its
\* bind / unbind attempts; seq tells one return from the next
\* (findAllIssues returns two lists: issues and radiusIssues; revertAllBindingsToStatic
\* two counts: reverted and radiusReverted)
NoResult ==
    [seq |-> 0, fn |-> "none", key |-> "all", force |-> FALSE, aggregated |-> FALSE,
     tokens |-> << >>, issues |-> << >>, radiusIssues |-> << >>, fixed |-> 0,
     unfixable |-> 0, reverted |-> 0, radiusReverted |-> 0, log |-> << >>,
     collections |-> << >>]

Result(fn, key, force, aggregated) ==
    [NoResult EXCEPT !.seq = 1 - returned.seq, !.fn = fn, !.key = key, !.force = force,
                     !.aggregated = aggregated]

\* a message to the UI: its type, its counts and its list of collections
NoMessage ==
    [type |-> "none", count |-> 0, totalCount |-> 0, spacingCount |-> 0,
     borderRadiusCount |-> 0, fixableCount |-> 0, unfixableCount |-> 0, nodeCount |-> 0,
     fixedCount |-> 0, collections |-> << >>]

\* figma.notify(text, {error})
Notification(error) == [error |-> error]

NoResponse == [posted |-> << >>, notified |-> << >>, errors |-> 0]

\* a slip the count could have: one entry per issue
uniqueNodeIds_perIssue(issues) == 1..Len(issues)

\* new Set(issues.map(issue => issue.node.id))
uniqueNodeIds(issues) == {issues[i].node : i \in 1..Len(issues)}

\* issues.filter(issue => issue.matchingToken !== null)
fixableIssues(issues) == SelectSeq(issues, LAMBDA issue : issue.matchingToken # Null)

\* issues.filter(issue => issue.matchingToken === null)
unfixableIssues(issues) == SelectSeq(issues, LAMBDA issue : issue.matchingToken = Null)

\* the counts findAllIssues returns with its two lists
findAllIssues(spacingIssues, borderRadiusIssues) ==
    LET totalIssues   == Len(spacingIssues) + Len(borderRadiusIssues)
        fixableCount  == Len(fixableIssues(spacingIssues))
                         + Len(fixableIssues(borderRadiusIssues))
    IN  [totalIssues |-> totalIssues, fixableIssues |-> fixableCount,
         unfixableIssues |-> totalIssues - fixableCount]

\* the message the handler posts once the function it awaited has returned
message(result) ==
    CASE result.fn = "find-spacing-issues" ->
            [NoMessage EXCEPT !.type = "spacing-issues-found",
                              !.count = Len(result.issues),
                              !.fixableCount = Len(fixableIssues(result.issues)),
                              !.unfixableCount = Len(unfixableIssues(result.issues)),
                              !.nodeCount = Cardinality(uniqueNodeIds(result.issues))]
      [] result.fn = "find-all-issues" ->
            LET results == findAllIssues(result.issues, result.radiusIssues)
            IN  [NoMessage EXCEPT !.type = "all-issues-found",
                                  !.totalCount = results.totalIssues,
                                  !.spacingCount = Len(result.issues),
                                  !.borderRadiusCount = Len(result.radiusIssues),
                                  !.fixableCount = results.fixableIssues,
                                  !.unfixableCount = results.unfixableIssues,
                                  !.nodeCount = Cardinality(uniqueNodeIds(result.issues)
                                                   \cup uniqueNodeIds(result.radiusIssues))]
      [] result.fn = "fixSpacingIssues" ->
            [NoMessage EXCEPT !.type = "spacing-issues-fixed",
                              !.fixedCount = result.fixed,
                              !.unfixableCount = result.unfixable]
      [] result.fn = "fixBorderRadiusIssues" ->
            [NoMessage EXCEPT !.type = "border-radius-issues-fixed",
                              !.fixedCount = result.fixed,
                              !.unfixableCount = result.unfixable]
      [] result.fn = "revertSpacingBindingsToStatic" ->
            [NoMessage EXCEPT !.type = "spacing-bindings-reverted",
                              !.count = result.reverted]
      [] result.fn = "revertAllBindingsToStatic" ->
            [NoMessage EXCEPT !.type = "all-bindings-reverted",
                              !.spacingCount = result.reverted,
                              !.borderRadiusCount = result.radiusReverted,
                              !.totalCount = result.reverted + result.radiusReverted]
      [] result.fn = "get-collections" ->
            [NoMessage EXCEPT !.type = "collections-loaded",
                              !.collections = result.collections]
      [] result.fn = "refresh-variables" ->
            [NoMessage EXCEPT !.type = "variables-refreshed"]
      [] OTHER -> NoMessage

\* fixSpacingIssues notifies by itself, and not when a bind failed and nothing else
\* is to report; get-collections does not notify; every other handler notifies
\* once after its message
notifies(result) ==
    IF result.fn = "fixSpacingIssues"
    THEN result.fixed > 0 \/ result.unfixable > 0 \/ Len(result.issues) = 0
    ELSE result.fn # "get-collections"

\* the tail of a handler whose function has returned; a function called on its own
\* (getSpacingVariables, findBorderRadiusIssues) posts nothing
respond(result) ==
    IF message(result) = NoMessage
    THEN [ui EXCEPT !.posted = << >>, !.notified = << >>]
    ELSE [ui EXCEPT !.posted = << message(result) >>,
                    !.notified = IF notifies(result) THEN << Notification(FALSE) >>
                                 ELSE << >>]

\* a slip the handler could have: the exception is logged and nothing is posted
onError_logOnly == [ui EXCEPT !.errors = @ + 1]

\* the catch block of the handler: one error notification, one error message
onError ==
    [ui EXCEPT !.posted = << [NoMessage EXCEPT !.type = "error"] >>,
               !.notified = << Notification(TRUE) >>,
               !.errors = @ + 1]

\* the collection filters a request can carry: none, the local collection, and
\* the id of every descriptor the UI was given by get-collections
CacheKeys ==
    IF variant = "single" THEN {"all"}
    ELSE {"all", "c1"}
         \cup ({cachedCollections[i].id : i \in 1..Len(cachedCollections)} \ {"null"})

\* the rest of the function once its token list is there
\* (find: the walk and its markers; fix: the walk, its markers and the bind loop)
finish(call, aggregated, tokens, ms) ==
    LET category == categoryOf(call.fn)
        issues   == IF call.fn \in TokenFns THEN << >>
                    ELSE IF category = "spacing" THEN spacingWalk(tokens)
                    ELSE radiusWalk(tokens)
        marked   == markIssues(ms, issues,
                               IF category = "spacing" THEN "spacing" ELSE "borderRadius")
        result   == [Result(call.fn, call.key, call.force, aggregated)
                        EXCEPT !.tokens = tokens, !.issues = issues]
    IN  /\ markers' = marked
        /\ IF call.fn \in FixFns
           THEN \E outcomes \in hostOutcomes(bindTargets(issues), BindOutcomes, "bound") :
                  LET st == fixIssues([val |-> value, bv |-> boundVariables,
                                       fixed |-> 0, log |-> << >>], issues, outcomes)
                  IN  /\ value' = st.val
                      /\ boundVariables' = st.bv
                      /\ returned' = [result EXCEPT !.fixed = st.fixed,
                                         !.unfixable = unfixableCount(issues, st.fixed),
                                         !.log = st.log]
           ELSE /\ returned' = result
                /\ UNCHANGED << value, boundVariables >>
        /\ ui' = respond(returned')

\* a request arrives: the function runs up to its cache test. On a hit it runs to
\* its end in the same turn of the event loop; on a miss it suspends in the
\* aggregation. find-spacing-issues and fixSpacingIssues clear the markers first.
Start(c, fn, key, force) ==
    /\ calls[c].pc = "idle"
    /\ fn \in RadiusFns => variant = "byCollection"
    /\ key \in CacheKeys
    /\ force => fn \in TokenFns
    /\ LET call == [IdleCall EXCEPT !.fn = fn, !.key = key, !.force = force, !.now0 = now]
           ms   == IF fn \in {"find-spacing-issues", "fixSpacingIssues"}
                   THEN clearMarkers(markers) ELSE markers
       IN  IF cacheHit(categoryOf(fn), key, force)
           THEN /\ finish(call, FALSE, cachedTokens(categoryOf(fn), key), ms)
                /\ UNCHANGED << calls, caches, populatedAt, allVariables >>
           ELSE /\ calls' = [calls EXCEPT ![c] = [call EXCEPT !.pc = "aggregating"]]
                /\ markers' = ms
                /\ UNCHANGED << value, boundVariables, returned, ui, caches, populatedAt,
                                allVariables >>
    /\ UNCHANGED << variant, caps, hostVariables, nodeType, layoutMode, selection, now >>
    /\ UNCHANGED elsewhere

\* the suspended request goes on with the list its aggregation returned
resume(c, all) ==
    LET call     == calls[c]
        category == categoryOf(call.fn)
        tokens   == classify(all, category, call.key)
    IN  /\ allVariables' = all
        /\ storeTokens(category, call.key, tokens, call.now0)
        /\ populatedAt' = [populatedAt EXCEPT ![category][call.key] = now]
        /\ calls' = [calls EXCEPT ![c] = IdleCall]
        /\ finish(call, TRUE, tokens, markers)

\* the aggregation of a suspended request completes: classify, store, go on
Complete(c) ==
    /\ calls[c].pc = "aggregating"
    /\ calls[c].fn # "find-all-issues"
    /\ \E fail \in Failures : resume(c, getAllVariablesAndImportLibraries(fail))
    /\ UNCHANGED << variant, caps, hostVariables, nodeType, layoutMode, selection, now >>
    /\ UNCHANGED elsewhere

\* the same aggregation followed host call by host call: a step of the run of
\* request c leaves everything but the run as it is
runStep(c, next) ==
    /\ calls[c].pc = "aggregating"
    /\ calls[c].fn # "find-all-issues"
    /\ runs' = [runs EXCEPT ![c] = next]
    /\ UNCHANGED << variant, caps, hostVariables, document, markers, now, caches,
                    collectionsCache, calls, returned, ui, populatedAt, allVariables,
                    refreshRequestedAt >>

\* at most MaxFaults host calls of one run throw
mayFail(c, ok) == ok \/ runs[c].faults < MaxFaults

BeginRun(c) == runs[c].pc = "idle" /\ runStep(c, beginRun)

LocalSettles(c) ==
    /\ runs[c].pc = "local"
    /\ \E ok \in BOOLEAN : mayFail(c, ok) /\ runStep(c, localSettles(runs[c], ok))

ListingSettles(c) ==
    /\ runs[c].pc = "listing"
    /\ \E ok \in BOOLEAN : mayFail(c, ok) /\ runStep(c, listingSettles(runs[c], ok))

CollectionSettles(c) ==
    /\ runs[c].pc = "collection"
    /\ \E ok \in BOOLEAN : mayFail(c, ok) /\ runStep(c, collectionSettles(runs[c], ok))

ImportSettles(c) ==
    /\ runs[c].pc = "batch"
    /\ \E pos \in runs[c].outstanding, ok \in BOOLEAN :
          mayFail(c, ok) /\ runStep(c, importSettles(runs[c], pos, ok))

JoinBatch(c) ==
    /\ runs[c].pc = "batch"
    /\ runs[c].outstanding = {}
    /\ runStep(c, joinBatch(runs[c]))

PauseEnds(c) == runs[c].pc = "pause" /\ runStep(c, pauseEnds(runs[c]))

\* the run has returned its list: classify, store, go on
CompleteRun(c) ==
    /\ calls[c].pc = "aggregating"
    /\ calls[c].fn # "find-all-issues"
    /\ runs[c].pc = "done"
    /\ resume(c, runs[c].acc.list)
    /\ runs' = [runs EXCEPT ![c] = IdleRun]
    /\ UNCHANGED << variant, caps, hostVariables, nodeType, layoutMode, selection, now,
                    collectionsCache, refreshRequestedAt >>

\* a spacing walk that empties the list of the radius detector
walkFor_sharedList(call, category, tokens, ms) ==
    IF category = "spacing"
    THEN [call |-> [call EXCEPT !.issues = spacingWalk(tokens),
                                !.radiusIssues = << >>,
                                !.pending = @ \ {"spacing"}],
          markers |-> markIssues(ms, spacingWalk(tokens), "spacing")]
    ELSE [call |-> [call EXCEPT !.radiusIssues = radiusWalk(tokens),
                                !.pending = @ \ {"radius"}],
          markers |-> markIssues(ms, radiusWalk(tokens), "borderRadius")]

\* the walk of one category for find-all-issues, on the document as it is now:
\* the call with the list filled in, and the markers
walkFor(call, category, tokens, ms) ==
    IF category = "spacing"
    THEN [call |-> [call EXCEPT !.issues = spacingWalk(tokens),
                                !.pending = @ \ {"spacing"}],
          markers |-> markIssues(ms, spacingWalk(tokens), "spacing")]
    ELSE [call |-> [call EXCEPT !.radiusIssues = radiusWalk(tokens),
                                !.pending = @ \ {"radius"}],
          markers |-> markIssues(ms, radiusWalk(tokens), "borderRadius")]

\* find-all-issues once a walk is done: it goes on waiting for the other list, or
\* findAllIssues returns and the handler posts its message
settle(c, walked) ==
    /\ markers' = walked.markers
    /\ IF walked.call.pending = {}
       THEN /\ calls' = [calls EXCEPT ![c] = IdleCall]
            /\ returned' = [Result("find-all-issues", "all", FALSE,
                                   calls[c].pc = "aggregating")
                               EXCEPT !.issues = walked.call.issues,
                                      !.radiusIssues = walked.call.radiusIssues]
            /\ ui' = respond(returned')
       ELSE /\ calls' = [calls EXCEPT ![c] = [walked.call EXCEPT !.pc = "aggregating"]]
            /\ UNCHANGED << returned, ui >>

\* find-all-issues arrives (src/figma-api.d.ts): clearMarkers, then findSpacingIssues
\* and findBorderRadiusIssues are both started; each runs its walk in this turn
\* when its token list is cached, the spacing walk first
FindAllIssues(c) ==
    /\ calls[c].pc = "idle"
    /\ variant = "byCollection"
    /\ LET start    == [IdleCall EXCEPT !.fn = "find-all-issues", !.now0 = now,
                                        !.pending = {"spacing", "radius"}]
           cleared  == [call |-> start, markers |-> clearMarkers(markers)]
           spacing  == IF cacheHit("spacing", "all", FALSE)
                       THEN walkFor(cleared.call, "spacing", cachedTokens("spacing", "all"),
                                    cleared.markers)
                       ELSE cleared
           radius   == IF cacheHit("radius", "all", FALSE)
                       THEN walkFor(spacing.call, "radius", cachedTokens("radius", "all"),
                                    spacing.markers)
                       ELSE spacing
       IN  settle(c, radius)
    /\ UNCHANGED << variant, caps, hostVariables, document, now, caches, populatedAt,
                    allVariables >>
    /\ UNCHANGED elsewhere

\* one of the aggregations find-all-issues waits for completes: classify, store,
\* walk
CompleteAll(c) ==
    /\ calls[c].pc = "aggregating"
    /\ calls[c].fn = "find-all-issues"
    /\ \E category \in calls[c].pending, fail \in Failures :
         LET all    == getAllVariablesAndImportLibraries(fail)
             tokens == classify(all, category, "all")
         IN  /\ allVariables' = all
             /\ storeTokens(category, "all", tokens, calls[c].now0)
             /\ populatedAt' = [populatedAt EXCEPT ![category]["all"] = now]
             /\ settle(c, walkFor(calls[c], category, tokens, markers))
    /\ UNCHANGED << variant, caps, hostVariables, document, now >>
    /\ UNCHANGED elsewhere

\* a host call of the walk throws when a suspended detection resumes (the
\* aggregation is done and stored, the walk reads the page): the exception leaves
\* the function and reaches the catch block of the handler. For find-all-issues
\* this is the walk it waited for last.
Raise(c) ==
    /\ calls[c].pc = "aggregating"
    /\ calls[c].fn \notin TokenFns
    /\ Cardinality(calls[c].pending) <= 1
    /\ ui.errors < MaxErrors
    /\ \E fail \in Failures :
         LET call     == calls[c]
             category == IF call.pending = {} THEN categoryOf(call.fn)
                         ELSE CHOOSE cat \in call.pending : TRUE
             all      == getAllVariablesAndImportLibraries(fail)
             tokens   == classify(all, category, call.key)
         IN  /\ allVariables' = all
             /\ storeTokens(category, call.key, tokens, call.now0)
             /\ populatedAt' = [populatedAt EXCEPT ![category][call.key] = now]
    /\ calls' = [calls EXCEPT ![c] = IdleCall]
    /\ ui' = onError
    /\ UNCHANGED << variant, caps, hostVariables, document, markers, now, returned >>
    /\ UNCHANGED elsewhere

\* the user selects nothing, the frame that holds the rectangle, or the other frame
Select ==
    /\ selection' \in {<< >>, << 1 >>, << 3 >>} \ {selection}
    /\ UNCHANGED << variant, caps, hostVariables, nodeType, layoutMode, value,
                    boundVariables, markers, now, caches, calls, returned, ui, populatedAt,
                    allVariables >>
    /\ UNCHANGED elsewhere

\* revertSpacingBindingsToStatic: it awaits nothing, so it runs in one turn
Revert ==
    /\ \E outcomes \in hostOutcomes(revertTargets, RevertOutcomes, "reverted") :
         LET st == revertSpacing([val |-> value, bv |-> boundVariables, count |-> 0,
                                  log |-> << >>], walkNodes, outcomes)
         IN  /\ value' = st.val
             /\ boundVariables' = st.bv
             /\ returned' = [Result("revertSpacingBindingsToStatic", "all", FALSE, FALSE)
                                EXCEPT !.reverted = st.count, !.log = st.log]
             /\ ui' = respond(returned')
    /\ UNCHANGED << variant, caps, hostVariables, nodeType, layoutMode, selection, markers,
                    now, caches, calls, populatedAt, allVariables >>
    /\ UNCHANGED elsewhere

\* revertAllBindingsToStatic (src/figma-api.d.ts): it awaits nothing either
RevertAll ==
    /\ variant = "byCollection"
    /\ \E outcomes \in hostOutcomes(revertAllTargets, RevertOutcomes, "reverted") :
         LET st == revertAll([val |-> value, bv |-> boundVariables, count |-> 0,
                              borderRadius |-> 0, log |-> << >>], walkNodes, outcomes)
         IN  /\ value' = st.val
             /\ boundVariables' = st.bv
             /\ returned' = [Result("revertAllBindingsToStatic", "all", FALSE, FALSE)
                                EXCEPT !.reverted = st.count,
                                       !.radiusReverted = st.borderRadius,
                                       !.log = st.log]
             /\ ui' = respond(returned')
    /\ UNCHANGED << variant, caps, hostVariables, nodeType, layoutMode, selection, markers,
                    now, caches, calls, populatedAt, allVariables >>
    /\ UNCHANGED elsewhere

\* the 'clear-markers' handler: clearMarkers, the count posted, and notified when
\* markers were removed
ClearMarkers ==
    /\ markers' = clearMarkers(markers)
    /\ LET clearedCount == Len(markers) - Len(clearMarkers(markers))
       IN  ui' = [ui EXCEPT !.posted = << [NoMessage EXCEPT !.type = "markers-cleared",
                                                            !.count = clearedCount] >>,
                            !.notified = IF clearedCount > 0 THEN << Notification(FALSE) >>
                                         ELSE << >>]
    /\ UNCHANGED << variant, caps, hostVariables, document, now, caches, calls, returned,
                    populatedAt, allVariables >>
    /\ UNCHANGED elsewhere

RECURSIVE distinct(_)
\* the sequence without the repetitions of its elements
distinct(seq) ==
    IF seq = << >> THEN << >>
    ELSE LET front == distinct(SubSeq(seq, 1, Len(seq) - 1))
             last  == seq[Len(seq)]
         IN  IF last \in Range(front) THEN front ELSE Append(front, last)

\* the collections the host lists: the local ones (those the local variables are
\* in), then the ones of the enabled libraries, which go by their key
hostCollections ==
    (IF caps.hasGetLocalVariableCollections
     THEN [i \in 1..Len(distinct([j \in 1..Len(localVariables) |->
                                     localVariables[j].variableCollectionId])) |->
             [id |-> distinct([j \in 1..Len(localVariables) |->
                                 localVariables[j].variableCollectionId])[i],
              isLocal |-> TRUE]]
     ELSE << >>)
    \o
    (IF caps.hasTeamLibraryAPI
     THEN [i \in 1..Len(libraryCollections) |->
             [id |-> libraryCollections[i].key, isLocal |-> FALSE]]
     ELSE << >>)

\* !forceRefresh && cachedCollections && (now - collectionsTimestamp) < CACHE_DURATION
collectionsHit(force) ==
    /\ ~force
    /\ cachedCollections # NoCollections
    /\ now - collectionsTimestamp < CACHE_DURATION

\* getAvailableCollections once the host has answered: the list is cached with the
\* `now` read when the call started, or one of the two host calls threw and the
\* function returns [] with the cache as it was
fetched(ok, now0) ==
    IF ok
    THEN [collections |-> hostCollections, cached |-> hostCollections, timestamp |-> now0,
          populated |-> now]
    ELSE [collections |-> << >>, cached |-> cachedCollections,
          timestamp |-> collectionsTimestamp, populated |-> populatedAt["collections"]["all"]]

\* the 'get-collections' handler: getAvailableCollections() answers from its cache
\* in the same turn, or suspends in the host's listing
GetCollections(c) ==
    /\ calls[c].pc = "idle"
    /\ variant = "byCollection"
    /\ IF collectionsHit(FALSE)
       THEN /\ returned' = [Result("get-collections", "all", FALSE, FALSE)
                               EXCEPT !.collections = cachedCollections]
            /\ ui' = respond(returned')
            /\ UNCHANGED calls
       ELSE /\ calls' = [calls EXCEPT ![c] = [IdleCall EXCEPT !.pc = "fetching",
                                                             !.fn = "get-collections",
                                                             !.now0 = now]]
            /\ UNCHANGED << returned, ui >>
    /\ UNCHANGED << variant, caps, hostVariables, document, markers, now, caches,
                    populatedAt, allVariables >>
    /\ UNCHANGED elsewhere

\* the listing of a suspended get-collections settles
CompleteCollections(c) ==
    /\ calls[c].pc = "fetching"
    /\ \E ok \in BOOLEAN :
         LET got == fetched(ok, calls[c].now0)
         IN  /\ cachedCollections' = got.cached
             /\ collectionsTimestamp' = got.timestamp
             /\ populatedAt' = [populatedAt EXCEPT !["collections"]["all"] = got.populated]
             /\ returned' = [Result("get-collections", "all", FALSE, TRUE)
                                EXCEPT !.collections = got.collections]
             /\ ui' = respond(returned')
    /\ calls' = [calls EXCEPT ![c] = IdleCall]
    /\ UNCHANGED << variant, caps, hostVariables, document, markers, now, caches,
                    allVariables, runs, refreshRequestedAt >>

\* cachedSpacingTokensByCollection.clear(); cachedBorderRadiusTokensByCollection.clear()
clearedMaps == [spacing |-> EmptyMap, radius |-> EmptyMap]

\* the 'refresh-variables' handler up to its await: the two token maps are cleared,
\* then getSpacingVariables(true), getBorderRadiusVariables(true) and
\* getAvailableCollections(true) are started and all three suspend
RefreshAll(c) ==
    /\ calls[c].pc = "idle"
    /\ variant = "byCollection"
    /\ cachedSpacingTokensByCollection' = clearedMaps.spacing
    /\ cachedBorderRadiusTokensByCollection' = clearedMaps.radius
    /\ calls' = [calls EXCEPT ![c] = [IdleCall EXCEPT !.pc = "refreshing",
                                                     !.fn = "refresh-variables",
                                                     !.force = TRUE,
                                                     !.now0 = now,
                                                     !.pending = {"spacing", "radius",
                                                                  "collections"}]]
    /\ UNCHANGED << variant, caps, hostVariables, document, markers, now,
                    cachedSpacingTokens, cachedBorderRadiusTokens, cacheTimestamp,
                    borderRadiusCacheTimestamp, returned, ui, populatedAt, allVariables >>
    /\ UNCHANGED elsewhere

\* one of the three calls a refresh waits for settles; when it is the last, the
\* handler notifies and posts variables-refreshed
CompleteRefresh(c) ==
    /\ calls[c].pc = "refreshing"
    /\ \E part \in calls[c].pending :
         /\ IF part = "collections"
            THEN \E ok \in BOOLEAN :
                   LET got == fetched(ok, calls[c].now0)
                   IN  /\ cachedCollections' = got.cached
                       /\ collectionsTimestamp' = got.timestamp
                       /\ populatedAt' = [populatedAt EXCEPT
                                             !["collections"]["all"] = got.populated]
                       /\ UNCHANGED << caches, allVariables >>
            ELSE \E fail \in Failures :
                   LET all    == getAllVariablesAndImportLibraries(fail)
                       tokens == classify(all, part, "all")
                   IN  /\ allVariables' = all
                       /\ storeTokens(part, "all", tokens, calls[c].now0)
                       /\ populatedAt' = [populatedAt EXCEPT ![part]["all"] = now]
                       /\ UNCHANGED collectionsCache
         /\ IF calls[c].pending = {part}
            THEN /\ calls' = [calls EXCEPT ![c] = IdleCall]
                 /\ returned' = Result("refresh-variables", "all", TRUE, TRUE)
                 /\ ui' = respond(returned')
                 /\ refreshRequestedAt' = calls[c].now0
            ELSE /\ calls' = [calls EXCEPT ![c].pending = @ \ {part}]
                 /\ UNCHANGED << returned, ui, refreshRequestedAt >>
    /\ UNCHANGED << variant, caps, hostVariables, document, markers, now, runs >>

\* the values a user gives to a variable or to a gap in the editor
EditValues == {8, 16}

\* the user edits the value a local number variable has in its first mode, while
\* the plugin is idle or suspended: every property bound to the variable follows
EditVariable ==
    /\ \E i \in 1..Len(localVariables), v \in EditValues :
          /\ Len(localVariables[i].modes) >= 1
          /\ localVariables[i].modes[1].kind = "number"
          /\ localVariables[i].modes[1].v # v
          /\ localVariables' = [localVariables EXCEPT ![i].modes[1].v = v]
          /\ value' = [n \in Nodes |-> [p \in AllProps |->
                          IF boundVariables[n][p] = localVariables[i].id THEN v
                          ELSE value[n][p]]]
    /\ UNCHANGED << variant, caps, libraryCollections, nodeType, layoutMode, boundVariables,
                    selection, markers, now, caches, calls, returned, ui, populatedAt,
                    allVariables >>
    /\ UNCHANGED elsewhere

\* the user edits the gap of a layout frame that is not bound to a variable
EditValue ==
    /\ \E n \in Nodes, v \in EditValues :
          /\ isAutoLayoutNode(n)
          /\ layoutMode[n] # "NONE"
          /\ boundVariables[n]["itemSpacing"] = NoBinding
          /\ value[n]["itemSpacing"] # v
          /\ value' = [value EXCEPT ![n]["itemSpacing"] = v]
    /\ UNCHANGED << variant, caps, hostVariables, nodeType, layoutMode, boundVariables,
                    selection, markers, now, caches, calls, returned, ui, populatedAt,
                    allVariables >>
    /\ UNCHANGED elsewhere

\* half the cache duration passes
Tick ==
    /\ now < MaxTicks * TickMs
    /\ now' = now + TickMs
    /\ UNCHANGED << variant, caps, hostVariables, document, markers, caches, calls,
                    returned, ui, populatedAt, allVariables >>
    /\ UNCHANGED elsewhere

-----------------------------------------------------------------------------
(* The host's variables and documents the specifications start from *)

Variable(id, key, name, type, coll, modes) ==
    [id |-> id, key |-> key, name |-> name, resolvedType |-> type,
     variableCollectionId |-> coll, modes |-> modes]

Num(v) == [kind |-> "number", v |-> v]

\* local: a spacing token of 8, a radius token of 4, a color
StdLocal ==
    << Variable("L8", "k8", "space-md", "FLOAT", "c1", << Num(8) >>),
       Variable("L4", "k4", "radius-sm", "FLOAT", "c1", << Num(4), Num(6) >>),
       Variable("Lc", "kc", "color-bg", "COLOR", "c1", << [kind |-> "alias", v |-> 0] >>) >>

AllCaps ==
    [hasVariablesAPI |-> TRUE, hasGetLocalVariables |-> TRUE,
     hasGetLocalVariableCollections |-> TRUE, hasTeamLibraryAPI |-> TRUE,
     hasImportVariableByKey |-> TRUE]

\* the variable a property of this value is bound to when a document starts with it
\* bound (a bound property shows its variable's value)
variableOfValue(v) == IF v = 8 THEN "L8" ELSE "L4"

ZeroProps == [p \in AllProps |-> 0]
Unbound   == [p \in AllProps |-> NoBinding]

\* properties vals with the properties of the set B bound
bindingsOf(vals, B) == [p \in AllProps |-> IF p \in B THEN variableOfValue(vals[p]) ELSE NoBinding]

\* the plugin as loaded, with these request slots: every cache empty, no request,
\* nothing posted
InitState(slots) ==
    /\ caps = AllCaps
    /\ now = 0
    /\ cachedSpacingTokensByCollection = EmptyMap
    /\ cachedBorderRadiusTokensByCollection = EmptyMap
    /\ cachedSpacingTokens = NoCache
    /\ cachedBorderRadiusTokens = NoCache
    /\ cacheTimestamp = 0
    /\ borderRadiusCacheTimestamp = 0
    /\ calls = [c \in slots |-> IdleCall]
    /\ returned = NoResult
    /\ ui = NoResponse
    /\ populatedAt = [cat \in {"spacing", "radius", "collections"} |->
                         [k \in {"all", "c1", "libA"} |-> -1]]
    /\ allVariables = << >>
    /\ cachedCollections = NoCollections
    /\ collectionsTimestamp = 0
    /\ runs = [c \in slots |-> IdleRun]
    /\ refreshRequestedAt = -1

InitLoaded == InitState(Calls)

\* the plugin as loaded, on a page without shapes of its own
InitProgram ==
    /\ InitLoaded
    /\ markers = << >>

-----------------------------------------------------------------------------
(* Specification of the spacing detector: one frame with every combination of
   padding values and bindings, detection requested over and over *)

PadValues == {0, 8, 16}

InitSpacing ==
    /\ InitProgram
    /\ variant \in {"single", "byCollection"}
    /\ localVariables = SubSeq(StdLocal, 1, 1)
    /\ libraryCollections = << >>
    /\ nodeType = [n \in Nodes |-> IF n = 3 THEN "FRAME" ELSE "GROUP"]
    /\ selection = << >>
    /\ \E t \in PadValues, b \in PadValues, l \in PadValues, r \in PadValues,
          gap \in {15}, mode \in {"HORIZONTAL"} :
         LET vals == [ZeroProps EXCEPT !["paddingTop"] = t, !["paddingBottom"] = b,
                                       !["paddingLeft"] = l, !["paddingRight"] = r,
                                       !["itemSpacing"] = gap]
         IN  \E B \in SUBSET {p \in PaddingProps : vals[p] = 8} :
               /\ layoutMode = [n \in Nodes |-> IF n = 3 THEN mode ELSE "NONE"]
               /\ value = [n \in Nodes |-> IF n = 3 THEN vals ELSE ZeroProps]
               /\ boundVariables = [n \in Nodes |-> IF n = 3 THEN bindingsOf(vals, B)
                                                    ELSE Unbound]

\* the detectors and fixers are requested with no collection selected in the UI
NoFilter == {key \in CacheKeys : key = "all"}

FindSpacingIssues(c) == \E key \in NoFilter : Start(c, "find-spacing-issues", key, FALSE)

NextSpacing == \E c \in Calls : FindSpacingIssues(c) \/ Complete(c)

SpecSpacing == InitSpacing /\ [][NextSpacing]_vars

-----------------------------------------------------------------------------
(* Specification of the border radius detector (src/figma-api.d.ts): one rectangle
   with every combination of corner radii and bindings *)

RadiusValues == {0, 4, 8}

InitRadius ==
    /\ InitProgram
    /\ variant = "byCollection"
    /\ localVariables = SubSeq(StdLocal, 2, 2)
    /\ libraryCollections = << >>
    /\ nodeType = [n \in Nodes |-> IF n = 3 THEN "RECTANGLE" ELSE "GROUP"]
    /\ layoutMode = [n \in Nodes |-> "NONE"]
    /\ selection = << >>
    /\ \E tl \in RadiusValues, tr \in RadiusValues, bl \in RadiusValues, br \in RadiusValues :
         LET vals == [ZeroProps EXCEPT !["topLeftRadius"] = tl, !["topRightRadius"] = tr,
                                       !["bottomLeftRadius"] = bl, !["bottomRightRadius"] = br]
         IN  \E B \in SUBSET {p \in Range(RadiusProps) : vals[p] = 4} :
               /\ value = [n \in Nodes |-> IF n = 3 THEN vals ELSE ZeroProps]
               /\ boundVariables = [n \in Nodes |-> IF n = 3 THEN bindingsOf(vals, B)
                                                    ELSE Unbound]

FindBorderRadiusIssues(c) == \E key \in NoFilter : Start(c, "findBorderRadiusIssues", key, FALSE)

NextRadius == \E c \in Calls : FindBorderRadiusIssues(c) \/ Complete(c)

SpecRadius == InitRadius /\ [][NextRadius]_vars

-----------------------------------------------------------------------------
(* Specification of the token cache: the spacing token list is requested again and
   again, forced or not, under every cache key, while time passes and aggregations
   take their time. getBorderRadiusVariables has the same head and tail
   (cacheHit, storeTokens) and runs in the radius specifications. *)

GetSpacingVariables(c) ==
    \E key \in CacheKeys, force \in BOOLEAN : Start(c, "getSpacingVariables", key, force)

InitCache ==
    /\ InitProgram
    /\ variant \in {"single", "byCollection"}
    /\ localVariables = SubSeq(StdLocal, 1, 2)
    /\ libraryCollections = << >>
    /\ nodeType = [n \in Nodes |-> "GROUP"]
    /\ layoutMode = [n \in Nodes |-> "NONE"]
    /\ value = [n \in Nodes |-> ZeroProps]
    /\ boundVariables = [n \in Nodes |-> Unbound]
    /\ selection = << >>

NextCache ==
    \/ \E c \in Calls : \/ GetSpacingVariables(c)
                        \/ Complete(c)
    \/ Tick

SpecCache == InitCache /\ [][NextCache]_vars

-----------------------------------------------------------------------------
(* Specification of the aggregator: the aggregation runs over host universes in
   which a key is listed more than once, under every failure of the host *)

LA  == Variable("A", "kA", "space-md", "FLOAT", "c1", << Num(8) >>)
PA  == Variable("PA", "kA", "space-md", "FLOAT", "c2", << Num(8) >>)
PB  == Variable("PB", "kB", "gap-lg", "FLOAT", "c2", << Num(16) >>)
PB2 == Variable("PB2", "kB", "gap-lg", "FLOAT", "c3", << Num(16) >>)
PC  == Variable("PC", "kC", "Spacing/8", "FLOAT", "c3", << Num(8) >>)
PR  == Variable("PR", "kR", "radius-sm", "FLOAT", "c2", << Num(4) >>)
PX  == Variable("PX", "kX", "color-bg", "COLOR", "c2", << [kind |-> "alias", v |-> 0] >>)
PD  == Variable("PD", "kD", "gap-lg", "FLOAT", "c2", << Num(16) >>)
PE  == Variable("PE", "kE", "gap-lg", "FLOAT", "c2", << Num(16) >>)

Library(key, variables) == [key |-> key, variables |-> variables]

\* 1: a key both local and published; 2: a key twice in one batch;
\* 3: a key in two library collections; 4: more stubs than one batch holds, with a
\*    key of the first batch again in the second; 5: radius stubs, twice
Universes ==
    << [local |-> << LA >>,     libraries |-> << Library("libA", << PA, PB >>) >>],
       [local |-> << >>,        libraries |-> << Library("libA", << PB, PX, PB2 >>) >>],
       [local |-> << LA, StdLocal[3] >>,
                                libraries |-> << Library("libA", << PB, PR >>),
                                                 Library("libB", << PB2, PC >>) >>],
       [local |-> << LA >>,     libraries |-> << Library("libA",
                                                   << PB, PD, PX, PE, PA, PC, PB2 >>) >>],
       [local |-> << >>,        libraries |-> << Library("libA", << PR, PR >>),
                                                 Library("libB", << PR, PB >>) >>] >>

InitAggregate ==
    /\ InitProgram
    /\ variant \in {"single", "byCollection"}
    /\ \E u \in 1..Len(Universes) :
          /\ localVariables = Universes[u].local
          /\ libraryCollections = Universes[u].libraries
    /\ nodeType = [n \in Nodes |-> "GROUP"]
    /\ layoutMode = [n \in Nodes |-> "NONE"]
    /\ value = [n \in Nodes |-> ZeroProps]
    /\ boundVariables = [n \in Nodes |-> Unbound]
    /\ selection = << >>

\* refresh: getSpacingVariables(true) always runs the aggregation
RefreshVariables(c) == \E key \in NoFilter : Start(c, "getSpacingVariables", key, TRUE)

NextAggregate == \E c \in Calls : RefreshVariables(c) \/ Complete(c)

SpecAggregate == InitAggregate /\ [][NextAggregate]_vars

-----------------------------------------------------------------------------
(* Specification of a session: detection, fix and revert requests in any order on
   a page with a plain frame (1) holding a rectangle (2), and a layout frame (3) *)

GapValues == {8, 15, 16}

\* local variables only: two spacing tokens of 8, one of 16, a radius token of 4
SessionLocal ==
    << StdLocal[1],
       Variable("L8b", "k8b", "Spacing/8", "FLOAT", "c1", << Num(8) >>),
       Variable("L16", "k16", "gap-lg", "FLOAT", "c1", << Num(16) >>),
       StdLocal[2] >>

InitSession ==
    /\ InitProgram
    /\ variant \in {"single", "byCollection"}
    /\ localVariables = SessionLocal
    /\ libraryCollections = << >>
    /\ nodeType = [n \in Nodes |-> IF n \in {1, 3} THEN "FRAME"
                                   ELSE IF n = 2 THEN "RECTANGLE" ELSE "GROUP"]
    /\ layoutMode = [n \in Nodes |-> IF n = 3 THEN "HORIZONTAL" ELSE "NONE"]
    /\ boundVariables = [n \in Nodes |-> Unbound]
    /\ selection \in {<< >>, << 3 >>}
    /\ \E gap \in GapValues, h \in {0, 15}, uniform \in BOOLEAN :
          value = [n \in Nodes |->
                     IF n = 3
                     THEN [ZeroProps EXCEPT !["itemSpacing"] = gap,
                                            !["paddingLeft"] = h, !["paddingRight"] = h]
                     ELSE IF n = 2
                     THEN (IF uniform
                           THEN [p \in AllProps |-> IF p \in Range(RadiusProps) THEN 5 ELSE 0]
                           ELSE [ZeroProps EXCEPT !["topLeftRadius"] = 4,
                                                  !["topRightRadius"] = 5])
                     ELSE ZeroProps]

FixSpacingIssues(c) == \E key \in NoFilter : Start(c, "fixSpacingIssues", key, FALSE)

FixBorderRadiusIssues(c) == \E key \in NoFilter : Start(c, "fixBorderRadiusIssues", key, FALSE)

Next ==
    \/ \E c \in Calls : \/ FindSpacingIssues(c)
                        \/ FixSpacingIssues(c)
                        \/ FindBorderRadiusIssues(c)
                        \/ FixBorderRadiusIssues(c)
                        \/ Complete(c)
    \/ Revert

Spec == InitSession /\ [][Next]_vars

-----------------------------------------------------------------------------
(* Specification of the binder (src/figma-api.d.ts): fix requests in any order on
   a page whose layout frame (1) has two equal paddings and holds a rectangle (2)
   of four equal radii; some properties are bound from the start, to the first of
   the two tokens of value 8 or to the radius token *)

BindingsLocal == << SessionLocal[1], SessionLocal[2], SessionLocal[4] >>

\* the values of the three nodes
BindingsValues ==
    [n \in Nodes |->
        IF n = 1 THEN [ZeroProps EXCEPT !["paddingLeft"] = 8, !["paddingRight"] = 8]
        ELSE IF n = 2 THEN [p \in AllProps |-> IF p \in Range(RadiusProps) THEN 4 ELSE 0]
        ELSE IF n = 3 THEN [ZeroProps EXCEPT !["itemSpacing"] = 8]
        ELSE ZeroProps]

InitFix ==
    /\ InitProgram
    /\ variant = "byCollection"
    /\ localVariables = BindingsLocal
    /\ libraryCollections = << >>
    /\ selection = << >>
    /\ value = BindingsValues
    /\ nodeType = [n \in Nodes |-> IF n \in {1, 3} THEN "FRAME"
                                   ELSE IF n = 2 THEN "RECTANGLE" ELSE "GROUP"]
    /\ layoutMode = [n \in Nodes |-> IF n = 1 THEN "HORIZONTAL" ELSE "NONE"]
    /\ \E B1 \in {{}, {"paddingLeft"}}, B2 \in {{}, {"topLeftRadius"}} :
          boundVariables = [n \in Nodes |->
                              IF n = 1 THEN bindingsOf(value[1], B1)
                              ELSE IF n = 2 THEN bindingsOf(value[2], B2)
                              ELSE Unbound]

\* one request at a time: no other request is suspended when c starts or resumes
\* (requests that overlap are the matter of the session specification)
oneAtATime(c) == \A d \in Calls \ {c} : calls[d].pc = "idle"

FixSpacingInTurn(c) == oneAtATime(c) /\ FixSpacingIssues(c)

FixBorderRadiusInTurn(c) == oneAtATime(c) /\ FixBorderRadiusIssues(c)

NextFix ==
    \E c \in Calls : \/ FixSpacingInTurn(c)
                     \/ FixBorderRadiusInTurn(c)
                     \/ Complete(c)

SpecFix == InitFix /\ [][NextFix]_vars

-----------------------------------------------------------------------------
(* Specification of the reverter (src/figma-api.d.ts): revert sweeps in any order
   on the same page, whose node 3 is a frame without layout or a component set;
   one or both paddings of 1, and any of the corners of 2 and the itemSpacing of
   3, are bound from the start *)

InitRevert ==
    /\ InitProgram
    /\ variant = "byCollection"
    /\ localVariables = BindingsLocal
    /\ libraryCollections = << >>
    /\ selection \in {<< >>, << 1 >>, << 3 >>}
    /\ value = BindingsValues
    /\ \E set \in BOOLEAN :
          /\ nodeType = [n \in Nodes |-> IF n = 1 THEN "FRAME"
                                         ELSE IF n = 2 THEN "RECTANGLE"
                                         ELSE IF n = 3
                                         THEN (IF set THEN "COMPONENT_SET" ELSE "FRAME")
                                         ELSE "GROUP"]
          /\ layoutMode = [n \in Nodes |-> IF n = 1 THEN "HORIZONTAL"
                                           ELSE IF n = 3 /\ set THEN "VERTICAL"
                                           ELSE "NONE"]
    /\ \E B1 \in {{"paddingLeft"}, {"paddingLeft", "paddingRight"}},
          B2 \in {{}, {"topLeftRadius"}, Range(RadiusProps)},
          B3 \in SUBSET {"itemSpacing"} :
          boundVariables = [n \in Nodes |->
                              IF n = 1 THEN bindingsOf(value[1], B1)
                              ELSE IF n = 2 THEN bindingsOf(value[2], B2)
                              ELSE IF n = 3 THEN bindingsOf(value[3], B3)
                              ELSE Unbound]

NextRevert == Revert \/ RevertAll

SpecRevert == InitRevert /\ [][NextRevert]_vars

-----------------------------------------------------------------------------
(* Specification of the message handler: detection requests on a page whose layout
   frame (1, gap 8) holds a rectangle (2), next to a layout frame (3, gap 15,
   paddingTop 8), while the user changes the selection and the host may throw in a
   walk; tokens of 8 (spacing) and 4 (radius) *)

InitHandler ==
    /\ InitProgram
    /\ variant \in {"single", "byCollection"}
    /\ localVariables = SubSeq(StdLocal, 1, 2)
    /\ libraryCollections = << >>
    /\ nodeType = [n \in Nodes |-> IF n \in {1, 3} THEN "FRAME"
                                   ELSE IF n = 2 THEN "RECTANGLE" ELSE "GROUP"]
    /\ layoutMode = [n \in Nodes |-> IF n = 1 THEN "HORIZONTAL"
                                     ELSE IF n = 3 THEN "VERTICAL" ELSE "NONE"]
    /\ boundVariables = [n \in Nodes |-> Unbound]
    /\ selection = << >>
    /\ \E uniform \in BOOLEAN :
          value = [n \in Nodes |->
                     IF n = 1 THEN [ZeroProps EXCEPT !["itemSpacing"] = 8]
                     ELSE IF n = 2
                     THEN (IF uniform
                           THEN [p \in AllProps |-> IF p \in Range(RadiusProps) THEN 4 ELSE 0]
                           ELSE [ZeroProps EXCEPT !["topLeftRadius"] = 4,
                                                  !["topRightRadius"] = 5])
                     ELSE IF n = 3
                     THEN [ZeroProps EXCEPT !["itemSpacing"] = 15, !["paddingTop"] = 8]
                     ELSE ZeroProps]

FindSpacingInTurn(c) == oneAtATime(c) /\ FindSpacingIssues(c)

FindAllInTurn(c) == oneAtATime(c) /\ FindAllIssues(c)

NextHandler ==
    \/ \E c \in Calls : \/ FindSpacingInTurn(c)
                        \/ FindAllInTurn(c)
                        \/ Complete(c)
                        \/ CompleteAll(c)
                        \/ Raise(c)
    \/ Select

SpecHandler == InitHandler /\ [][NextHandler]_vars

-----------------------------------------------------------------------------
(* Specification of the token source under failures: the aggregation of each of the
   three snapshots runs over the host universes, under every failure of the host *)

InitIsolation ==
    /\ InitProgram
    /\ variant \in {"single", "byCollection", "unbatched"}
    /\ \E u \in 1..Len(Universes) :
          /\ localVariables = Universes[u].local
          /\ libraryCollections = Universes[u].libraries
    /\ nodeType = [n \in Nodes |-> "GROUP"]
    /\ layoutMode = [n \in Nodes |-> "NONE"]
    /\ value = [n \in Nodes |-> ZeroProps]
    /\ boundVariables = [n \in Nodes |-> Unbound]
    /\ selection = << >>

NextIsolation == \E c \in Calls : RefreshVariables(c) \/ Complete(c)

SpecIsolation == InitIsolation /\ [][NextIsolation]_vars

-----------------------------------------------------------------------------
(* Specification of a request whose aggregation is followed host call by host
   call: spacing detection and fix requests, one at a time, under every set of
   capabilities the load can find, on a page with a frame of gap 8 (1) holding a
   rectangle of radius 4 (2) and a frame of gap 16 and paddingTop 5 (3). The
   local variables hold a spacing token of 8, a radius token of 4 and variables
   the classifier must pass over; the library libA publishes seven variables (six
   with a spacing name: two batches), among them tokens of 16 and a token of 8;
   libB publishes a radius token of 4 and the token of 8 again. *)

LN == Variable("LN", "kN", "gap-lg", "FLOAT", "c1", << Num(0 - 8) >>)
LX == Variable("LX", "kLX", "Spacing/8", "FLOAT", "c1", << [kind |-> "alias", v |-> 0] >>)
LM == Variable("LM", "kM", "space-md", "FLOAT", "c1", << >>)
LS == Variable("LS", "kS", "corner-size", "STRING", "c1", << [kind |-> "alias", v |-> 0] >>)

RunLocal == << LA, LN, LX, LM, LS, StdLocal[2] >>

RunLibraries ==
    << Library("libA", << PB, PD, PX, PE, PA, PC, PB2 >>), Library("libB", << PR, PC >>) >>

\* what the probes at load can find: everything; no figma.variables; no
\* importVariableByKeyAsync; no team library; no getLocalVariablesAsync
CapSets ==
    { AllCaps,
      [hasVariablesAPI |-> FALSE, hasGetLocalVariables |-> FALSE,
       hasGetLocalVariableCollections |-> FALSE, hasTeamLibraryAPI |-> TRUE,
       hasImportVariableByKey |-> FALSE],
      [AllCaps EXCEPT !.hasImportVariableByKey = FALSE],
      [AllCaps EXCEPT !.hasTeamLibraryAPI = FALSE],
      [AllCaps EXCEPT !.hasGetLocalVariables = FALSE] }

InitRun ==
    /\ markers = << >>
    /\ now = 0
    /\ cachedSpacingTokensByCollection = EmptyMap
    /\ cachedBorderRadiusTokensByCollection = EmptyMap
    /\ cachedSpacingTokens = NoCache
    /\ cachedBorderRadiusTokens = NoCache
    /\ cacheTimestamp = 0
    /\ borderRadiusCacheTimestamp = 0
    /\ calls = [c \in Calls |-> IdleCall]
    /\ returned = NoResult
    /\ ui = NoResponse
    /\ populatedAt = [cat \in {"spacing", "radius", "collections"} |->
                         [k \in {"all", "c1"} |-> -1]]
    /\ allVariables = << >>
    /\ cachedCollections = NoCollections
    /\ collectionsTimestamp = 0
    /\ runs = [c \in Calls |-> IdleRun]
    /\ refreshRequestedAt = -1
    /\ caps \in CapSets
    /\ variant \in {"single", "byCollection"}
    /\ localVariables = RunLocal
    /\ libraryCollections = RunLibraries
    /\ nodeType = [n \in Nodes |-> IF n \in {1, 3} THEN "FRAME"
                                   ELSE IF n = 2 THEN "RECTANGLE" ELSE "GROUP"]
    /\ layoutMode = [n \in Nodes |-> IF n = 1 THEN "HORIZONTAL"
                                     ELSE IF n = 3 THEN "VERTICAL" ELSE "NONE"]
    /\ boundVariables = [n \in Nodes |-> Unbound]
    /\ selection = << >>
    /\ value = [n \in Nodes |->
                  IF n = 1 THEN [ZeroProps EXCEPT !["itemSpacing"] = 8]
                  ELSE IF n = 2 THEN [p \in AllProps |-> IF p \in Range(RadiusProps) THEN 4 ELSE 0]
                  ELSE IF n = 3
                  THEN [ZeroProps EXCEPT !["itemSpacing"] = 16, !["paddingTop"] = 5]
                  ELSE ZeroProps]

FindBorderRadiusInTurn(c) == oneAtATime(c) /\ FindBorderRadiusIssues(c)

NextRun ==
    \E c \in Calls : \/ FindSpacingInTurn(c)
                     \/ FixSpacingInTurn(c)
                     \/ BeginRun(c)
                     \/ LocalSettles(c)
                     \/ ListingSettles(c)
                     \/ CollectionSettles(c)
                     \/ ImportSettles(c)
                     \/ JoinBatch(c)
                     \/ PauseEnds(c)
                     \/ CompleteRun(c)

SpecRun == InitRun /\ [][NextRun]_vars

-----------------------------------------------------------------------------
(* Specifications of the token sources: the token lists of both categories
   (SpecSources) and the detections of both categories (SpecCollision), one
   request at a time, on the same page but with paddingTop 4 on frame 3; the
   local variables of the run specification; libA publishes a spacing token of 8,
   a color and a FLOAT of 4 whose name matches both patterns. The values 8 and 4
   of the page have a local and a published token. *)

PK == Variable("PK", "kK", "corner-size", "FLOAT", "c2", << Num(4) >>)

SourcesLibraries == << Library("libA", << PC, PX, PK >>) >>

InitSources ==
    /\ InitProgram
    /\ variant \in {"single", "byCollection"}
    /\ localVariables = RunLocal
    /\ libraryCollections = SourcesLibraries
    /\ nodeType = [n \in Nodes |-> IF n \in {1, 3} THEN "FRAME"
                                   ELSE IF n = 2 THEN "RECTANGLE" ELSE "GROUP"]
    /\ layoutMode = [n \in Nodes |-> IF n = 1 THEN "HORIZONTAL"
                                     ELSE IF n = 3 THEN "VERTICAL" ELSE "NONE"]
    /\ boundVariables = [n \in Nodes |-> Unbound]
    /\ selection = << >>
    /\ value = [n \in Nodes |->
                  IF n = 1 THEN [ZeroProps EXCEPT !["itemSpacing"] = 8]
                  ELSE IF n = 2 THEN [p \in AllProps |-> IF p \in Range(RadiusProps) THEN 4 ELSE 0]
                  ELSE IF n = 3
                  THEN [ZeroProps EXCEPT !["itemSpacing"] = 16, !["paddingTop"] = 4]
                  ELSE ZeroProps]

\* the token list of a category is asked for, for all collections or for one
GetSpacingInTurn(c) ==
    oneAtATime(c) /\ \E key \in CacheKeys : Start(c, "getSpacingVariables", key, FALSE)

GetBorderRadiusInTurn(c) ==
    oneAtATime(c) /\ \E key \in CacheKeys : Start(c, "getBorderRadiusVariables", key, FALSE)

NextSources ==
    \E c \in Calls : \/ GetSpacingInTurn(c)
                     \/ GetBorderRadiusInTurn(c)
                     \/ Complete(c)

SpecSources == InitSources /\ [][NextSources]_vars

NextCollision ==
    \E c \in Calls : \/ FindSpacingInTurn(c)
                     \/ FindBorderRadiusInTurn(c)
                     \/ Complete(c)

SpecCollision == InitSources /\ [][NextCollision]_vars

-----------------------------------------------------------------------------
(* Specification of combined detection: find-all-issues next to the two detectors
   run alone, one request at a time, on a document nobody edits, while the host
   may fail in any aggregation *)

NextCombined ==
    \E c \in Calls : \/ FindSpacingInTurn(c)
                     \/ FindBorderRadiusInTurn(c)
                     \/ FindAllInTurn(c)
                     \/ Complete(c)
                     \/ CompleteAll(c)

SpecCombined == InitSources /\ [][NextCombined]_vars

-----------------------------------------------------------------------------
(* Specification of the marker layer: detection, fix and clear requests that may
   overlap, on a page whose layout frame (1, gap 8, corners 4) holds a rectangle
   (2, corners 4), next to a layout frame (3, gap 15); tokens of 8 (spacing) and
   4 (radius) *)

\* the page of the marker specifications
MarkersPage ==
    /\ variant \in {"single", "byCollection"}
    /\ localVariables = SubSeq(StdLocal, 1, 2)
    /\ libraryCollections = << >>
    /\ nodeType = [n \in Nodes |-> IF n \in {1, 3} THEN "FRAME"
                                   ELSE IF n = 2 THEN "RECTANGLE" ELSE "GROUP"]
    /\ layoutMode = [n \in Nodes |-> IF n = 1 THEN "HORIZONTAL"
                                     ELSE IF n = 3 THEN "VERTICAL" ELSE "NONE"]
    /\ boundVariables = [n \in Nodes |-> Unbound]
    /\ selection = << >>
    /\ value = [n \in Nodes |->
                  IF n = 1
                  THEN [p \in AllProps |-> IF p \in Range(RadiusProps) THEN 4
                                           ELSE IF p = "itemSpacing" THEN 8 ELSE 0]
                  ELSE IF n = 2
                  THEN [p \in AllProps |-> IF p \in Range(RadiusProps) THEN 4 ELSE 0]
                  ELSE IF n = 3 THEN [ZeroProps EXCEPT !["itemSpacing"] = 15]
                  ELSE ZeroProps]

InitMarkers == InitProgram /\ MarkersPage

NextMarkers ==
    \/ \E c \in Calls : \/ FindSpacingIssues(c)
                        \/ FindBorderRadiusIssues(c)
                        \/ FindAllIssues(c)
                        \/ FixSpacingIssues(c)
                        \/ Complete(c)
                        \/ CompleteAll(c)
    \/ ClearMarkers

SpecMarkers == InitMarkers /\ [][NextMarkers]_vars

\* shapes the user has drawn at the top level of the page: an ellipse and a
\* rectangle named like markers, and a plain ellipse; none carries a markerFor tag
Drawn ==
    << [type |-> "ELLIPSE", name |-> "Can Fix Spacing", markerFor |-> NoTag],
       [type |-> "RECTANGLE", name |-> "No Radius Token", markerFor |-> NoTag],
       [type |-> "ELLIPSE", name |-> "Ellipse 1", markerFor |-> NoTag] >>

\* the same requests on a page that holds shapes of the user
InitClear == InitLoaded /\ markers = Drawn /\ MarkersPage

SpecClear == InitClear /\ [][NextMarkers]_vars

-----------------------------------------------------------------------------
(* Specification of detection and fix on a document that is being edited: a layout
   frame (1, gap 8) and a layout frame (3, gap 16), one local spacing variable of
   value 8; between the requests and while one is suspended the user edits the
   value of the variable or the gap of a frame *)

InitEdits ==
    /\ InitProgram
    /\ variant \in {"single", "byCollection"}
    /\ localVariables = << LA >>
    /\ libraryCollections = << >>
    /\ nodeType = [n \in Nodes |-> IF n \in {1, 3} THEN "FRAME"
                                   ELSE IF n = 2 THEN "RECTANGLE" ELSE "GROUP"]
    /\ layoutMode = [n \in Nodes |-> IF n = 1 THEN "HORIZONTAL"
                                     ELSE IF n = 3 THEN "VERTICAL" ELSE "NONE"]
    /\ boundVariables = [n \in Nodes |-> Unbound]
    /\ selection = << >>
    /\ value = [n \in Nodes |->
                  IF n = 1 THEN [ZeroProps EXCEPT !["itemSpacing"] = 8]
                  ELSE IF n = 3 THEN [ZeroProps EXCEPT !["itemSpacing"] = 16]
                  ELSE ZeroProps]

NextEdits ==
    \/ \E c \in Calls : \/ FindSpacingInTurn(c)
                        \/ FixSpacingInTurn(c)
                        \/ Complete(c)
    \/ EditVariable
    \/ EditValue

SpecEdits == InitEdits /\ [][NextEdits]_vars

-----------------------------------------------------------------------------
(* Specification of the global refresh: the spacing token list and the list of
   collections are asked for and refresh-variables is requested, one request at a
   time, while time passes; any host call of a fetch may throw. One local spacing
   variable, no library *)

InitRefresh ==
    /\ InitProgram
    /\ variant = "byCollection"
    /\ localVariables = SubSeq(StdLocal, 1, 1)
    /\ libraryCollections = << >>
    /\ nodeType = [n \in Nodes |-> "GROUP"]
    /\ layoutMode = [n \in Nodes |-> "NONE"]
    /\ boundVariables = [n \in Nodes |-> Unbound]
    /\ selection = << >>
    /\ value = [n \in Nodes |-> ZeroProps]

GetAllSpacingInTurn(c) == oneAtATime(c) /\ Start(c, "getSpacingVariables", "all", FALSE)

GetCollectionsInTurn(c) == oneAtATime(c) /\ GetCollections(c)

RefreshAllInTurn(c) == oneAtATime(c) /\ RefreshAll(c)

NextRefresh ==
    \/ \E c \in Calls : \/ GetAllSpacingInTurn(c)
                        \/ GetCollectionsInTurn(c)
                        \/ RefreshAllInTurn(c)
                        \/ Complete(c)
                        \/ CompleteCollections(c)
                        \/ CompleteRefresh(c)
    \/ Tick

SpecRefresh == InitRefresh /\ [][NextRefresh]_vars

-----------------------------------------------------------------------------
(* Specification of overlapping populates: a request for the spacing token list
   and a refresh (refresh-variables, which is getSpacingVariables(true) in
   src/code.ts) that can be suspended in their aggregations at the same time, while
   time passes. One local spacing variable, no library *)

\* the two request slots of this specification: the reader's and the refresher's
Reader == "reader"
Refresher == "refresher"
Overlapping == {Reader, Refresher}

InitOverlap ==
    /\ InitState(Overlapping)
    /\ markers = << >>
    /\ variant \in {"single", "byCollection"}
    /\ localVariables = SubSeq(StdLocal, 1, 1)
    /\ libraryCollections = << >>
    /\ nodeType = [n \in Nodes |-> "GROUP"]
    /\ layoutMode = [n \in Nodes |-> "NONE"]
    /\ boundVariables = [n \in Nodes |-> Unbound]
    /\ selection = << >>
    /\ value = [n \in Nodes |-> ZeroProps]

\* getSpacingVariables() for every collection
GetAllSpacing(c) == \E key \in NoFilter : Start(c, "getSpacingVariables", key, FALSE)

\* src/code.ts: the 'refresh-variables' handler awaits getSpacingVariables(true)
RefreshSpacing(c) == variant = "single" /\ RefreshVariables(c)

NextOverlap ==
    \/ GetAllSpacing(Reader)
    \/ RefreshSpacing(Refresher)
    \/ RefreshAll(Refresher)
    \/ \E c \in Overlapping : Complete(c) \/ CompleteRefresh(c)
    \/ Tick

SpecOverlap == InitOverlap /\ [][NextOverlap]_vars

-----------------------------------------------------------------------------
(* Specification of the collection filter (src/figma-api.d.ts): the UI asks for
   the list of collections and then detects with the id of a listed collection
   as filter, one request at a time. A layout frame (3) has a gap of 8
   or 16 and a rectangle (2) four radii of 4; the local collection c1 holds a
   spacing token of 8 and a radius token of 4; the library libA publishes a
   spacing token of 16 and a radius token of 4, which once imported are variables
   of the collection c2. *)

FilterLibraries == << Library("libA", << PB, PR >>) >>

InitFilter ==
    /\ InitProgram
    /\ variant = "byCollection"
    /\ localVariables = << LA, StdLocal[2] >>
    /\ libraryCollections = FilterLibraries
    /\ nodeType = [n \in Nodes |-> IF n = 3 THEN "FRAME"
                                   ELSE IF n = 2 THEN "RECTANGLE" ELSE "GROUP"]
    /\ layoutMode = [n \in Nodes |-> IF n = 3 THEN "HORIZONTAL" ELSE "NONE"]
    /\ boundVariables = [n \in Nodes |-> Unbound]
    /\ selection = << >>
    /\ \E gap \in {8, 16} :
          value = [n \in Nodes |->
                     IF n = 3 THEN [ZeroProps EXCEPT !["itemSpacing"] = gap]
                     ELSE IF n = 2
                     THEN [p \in AllProps |-> IF p \in Range(RadiusProps) THEN 4 ELSE 0]
                     ELSE ZeroProps]

\* the filters the dropdowns of the UI offer: the ids of the listed collections
ListedIds == CacheKeys \ {"all"}

FindSpacingFiltered(c) ==
    oneAtATime(c) /\ \E key \in ListedIds : Start(c, "find-spacing-issues", key, FALSE)

FindBorderRadiusFiltered(c) ==
    oneAtATime(c) /\ \E key \in ListedIds : Start(c, "findBorderRadiusIssues", key, FALSE)

NextFilter ==
    \E c \in Calls : \/ GetCollectionsInTurn(c)
                     \/ CompleteCollections(c)
                     \/ FindSpacingFiltered(c)
                     \/ FindBorderRadiusFiltered(c)
                     \/ Complete(c)

SpecFilter == InitFilter /\ [][NextFilter]_vars

-----------------------------------------------------------------------------
(* Specification of detection under a selection: the three detections, one
   request at a time, on the page of the handler specification (the layout frame
   1 holds the rectangle 2) with nothing selected, one node selected, or two nodes
   selected, among them the frame together with the rectangle inside it *)

Selections == {<< >>, << 1 >>, << 2 >>, << 3 >>, << 1, 3 >>, << 1, 2 >>, << 2, 1 >>}

InitSelected ==
    /\ InitProgram
    /\ variant \in {"single", "byCollection"}
    /\ localVariables = SubSeq(StdLocal, 1, 2)
    /\ libraryCollections = << >>
    /\ nodeType = [n \in Nodes |-> IF n \in {1, 3} THEN "FRAME"
                                   ELSE IF n = 2 THEN "RECTANGLE" ELSE "GROUP"]
    /\ layoutMode = [n \in Nodes |-> IF n = 1 THEN "HORIZONTAL"
                                     ELSE IF n = 3 THEN "VERTICAL" ELSE "NONE"]
    /\ boundVariables = [n \in Nodes |-> Unbound]
    /\ selection \in Selections
    /\ \E uniform \in BOOLEAN :
          value = [n \in Nodes |->
                     IF n = 1 THEN [ZeroProps EXCEPT !["itemSpacing"] = 8]
                     ELSE IF n = 2
                     THEN (IF uniform
                           THEN [p \in AllProps |-> IF p \in Range(RadiusProps) THEN 4 ELSE 0]
                           ELSE [ZeroProps EXCEPT !["topLeftRadius"] = 4,
                                                  !["topRightRadius"] = 5])
                     ELSE IF n = 3
                     THEN [ZeroProps EXCEPT !["itemSpacing"] = 15, !["paddingTop"] = 8]
                     ELSE ZeroProps]

NextSelected ==
    \E c \in Calls : \/ FindSpacingInTurn(c)
                     \/ FindBorderRadiusInTurn(c)
                     \/ FindAllInTurn(c)
                     \/ Complete(c)
                     \/ CompleteAll(c)

SpecSelected == InitSelected /\ [][NextSelected]_vars

-----------------------------------------------------------------------------
(* Specification of the marker layer under requests in turn: the detections, the
   spacing fix and clear-markers on the page of the marker specifications, each
   request arriving when no other is suspended *)

FixSpacingAlone(c) == oneAtATime(c) /\ FixSpacingIssues(c)

ClearMarkersInTurn == (\A c \in Calls : calls[c].pc = "idle") /\ ClearMarkers

NextMirror ==
    \/ \E c \in Calls : \/ FindSpacingInTurn(c)
                        \/ FindAllInTurn(c)
                        \/ FixSpacingAlone(c)
                        \/ Complete(c)
                        \/ CompleteAll(c)
    \/ ClearMarkersInTurn

SpecMirror == InitMarkers /\ [][NextMirror]_vars

-----------------------------------------------------------------------------
(* Observing a request *)

\* the step in which a function returns
Returns == returned'.seq # returned.seq

\* the step in which a function returns from its cache test, without suspending
ReturnsAtOnce == Returns /\ calls' = calls

\* the step in which request c suspends in an aggregation
Suspends(c) == calls[c].pc = "idle" /\ calls'[c].pc = "aggregating"

SpacingDetectFns == {"find-spacing-issues", "fixSpacingIssues"}
RadiusDetectFns  == {"findBorderRadiusIssues", "fixBorderRadiusIssues"}

\* how many issues of a list name this node and property category
countIssues(issues, n, property) ==
    Cardinality({i \in 1..Len(issues) : issues[i].node = n /\ issues[i].property = property})

\* the nodes the spacing detector evaluates: visited, layout container, layout on
evaluatedSpacingNodes ==
    {n \in Range(walkNodes) : isAutoLayoutNode(n) /\ layoutMode[n] # "NONE"}

evaluatedRadiusNodes ==
    {n \in Range(walkNodes) : isBorderRadiusNode(n) /\ hasRadiusProperties(n)}

unboundProps(n, props) == {p \in props : boundVariables[n][p] = NoBinding}

uniformPadding(n) ==
    /\ value[n]["paddingTop"] > 0
    /\ \A p \in PaddingProps : value[n][p] = value[n]["paddingTop"]

-----------------------------------------------------------------------------
(* C1 - C3, C5: the spacing decision policy *)

\* C1 (as claimed): when a layout-enabled node has four equal positive padding
\* edges of which only paddingTop is bound, a detection pass emits no paddingAll
\* for it and still reports the unbound edges: one horizontalPadding issue for
\* left/right and one paddingBottom issue.
C1_PartialBindingDecomposition ==
    [][(Returns /\ returned'.fn \in SpacingDetectFns) =>
          \A n \in evaluatedSpacingNodes :
             (uniformPadding(n) /\ unboundProps(n, PaddingProps) = PaddingProps \ {"paddingTop"})
             => /\ countIssues(returned'.issues, n, "paddingAll") = 0
                /\ countIssues(returned'.issues, n, "horizontalPadding") = 1
                /\ countIssues(returned'.issues, n, "paddingBottom") = 1]_vars

\* C2: when a layout-enabled node has four equal, positive, unbound padding edges,
\* a detection pass emits exactly one paddingAll issue for it and no paddingLeft,
\* paddingRight, paddingTop, paddingBottom, horizontalPadding or verticalPadding
\* issue.
C2_UniformShortcutExclusive ==
    [][(Returns /\ returned'.fn \in SpacingDetectFns) =>
          \A n \in evaluatedSpacingNodes :
             (uniformPadding(n) /\ unboundProps(n, PaddingProps) = PaddingProps)
             => /\ countIssues(returned'.issues, n, "paddingAll") = 1
                /\ \A q \in PaddingProps \cup {"horizontalPadding", "verticalPadding"} :
                      countIssues(returned'.issues, n, q) = 0]_vars

\* C2 witness: a detection has returned a paddingAll issue for a node whose four
\* edges are equal, positive and unbound
C2_Witness ==
    /\ returned.fn = "find-spacing-issues"
    /\ \E n \in evaluatedSpacingNodes :
          /\ uniformPadding(n)
          /\ unboundProps(n, PaddingProps) = PaddingProps
          /\ countIssues(returned.issues, n, "paddingAll") = 1

\* the pair part of C3 for one pair (a, b) reported as `pair`
pairPolicyClaim(issues, n, pair, a, b) ==
    /\ countIssues(issues, n, pair) > 0 =>
          /\ value[n][a] = value[n][b]
          /\ value[n][a] > 0
          /\ unboundProps(n, {a, b}) = {a, b}
    /\ (value[n][a] = value[n][b] /\ value[n][a] > 0 /\ Cardinality(unboundProps(n, {a, b})) = 1)
          => /\ countIssues(issues, n, pair) = 0
             /\ \A p \in {a, b} :
                   countIssues(issues, n, p) = IF p \in unboundProps(n, {a, b}) THEN 1 ELSE 0

\* C3 (as claimed): horizontalPadding (verticalPadding) is emitted for a node only
\* when its left and right (top and bottom) edges are equal, positive and both
\* unbound; when exactly one edge of an equal positive pair is bound, no pair issue
\* is emitted and exactly the unbound edge is reported on its own.
C3_PairOnlyWhenNotPartiallyBound ==
    [][(Returns /\ returned'.fn \in SpacingDetectFns) =>
          \A n \in evaluatedSpacingNodes :
             /\ pairPolicyClaim(returned'.issues, n, "horizontalPadding",
                                "paddingLeft", "paddingRight")
             /\ pairPolicyClaim(returned'.issues, n, "verticalPadding",
                                "paddingTop", "paddingBottom")]_vars

\* C5: in every detection result, each issue's matchingToken is null or a token
\* of the token list the detection used whose value equals the issue's raw value,
\* and it is null exactly when no token of that list has that value.
C5_ExactMatchOnly ==
    \A i \in 1..Len(returned.issues) :
        LET issue  == returned.issues[i]
            tokens == returned.tokens
            same   == {j \in 1..Len(tokens) : tokens[j].value = issue.currentValue}
        IN  IF same = {}
            THEN issue.matchingToken = Null
            ELSE \E j \in same : issue.matchingToken = tokens[j]

\* C5 witness: a detection whose token list is not empty has returned an issue
\* without a match (no token of its value) and an issue with a match
C5_Witness ==
    /\ returned.tokens # << >>
    /\ \E i, j \in 1..Len(returned.issues) :
          /\ returned.issues[i].matchingToken = Null
          /\ returned.issues[j].matchingToken # Null
          /\ returned.issues[j].matchingToken.value = returned.issues[j].currentValue

-----------------------------------------------------------------------------
(* C4: the border radius decision policy *)

\* C4 (as claimed): for a node with corner radii, a detection pass emits one
\* borderRadiusAll issue exactly when the four corners are equal, positive and none
\* of them is bound; in every other case it emits no borderRadiusAll issue and one
\* issue per corner that is positive and unbound.
C4_RadiusAllIffUniformUnbound ==
    [][(Returns /\ returned'.fn \in RadiusDetectFns) =>
          \A n \in evaluatedRadiusNodes :
             IF areAllRadiiSameAndPositive(n)
                /\ unboundProps(n, Range(RadiusProps)) = Range(RadiusProps)
             THEN /\ countIssues(returned'.issues, n, "borderRadiusAll") = 1
                  /\ \A p \in Range(RadiusProps) : countIssues(returned'.issues, n, p) = 0
             ELSE /\ countIssues(returned'.issues, n, "borderRadiusAll") = 0
                  /\ \A p \in Range(RadiusProps) :
                        countIssues(returned'.issues, n, p) =
                           IF value[n][p] > 0 /\ p \in unboundProps(n, {p}) THEN 1 ELSE 0]_vars

-----------------------------------------------------------------------------
(* C6, C7: the token cache *)

\* the cache holds a list for this category and key
hasEntry(category, key) ==
    IF variant = "single" THEN cachedSpacingTokens # NoCache
    ELSE key \in DOMAIN (IF category = "spacing" THEN cachedSpacingTokensByCollection
                         ELSE cachedBorderRadiusTokensByCollection)

\* the timestamp the program keeps for an entry: cacheTimestamp /
\* borderRadiusCacheTimestamp for the single slot and the "all" key; the program
\* keeps none for a collection key, the time it stored the entry stands for it
entryTimestamp(category, key) ==
    IF variant = "single" \/ (key = "all" /\ category = "spacing") THEN cacheTimestamp
    ELSE IF key = "all" THEN borderRadiusCacheTimestamp
    ELSE populatedAt[category][key]

\* a populate for this category and key completed less than 5 minutes ago
populatedWithinTTL(category, key) ==
    /\ populatedAt[category][key] >= 0
    /\ now - populatedAt[category][key] < CACHE_DURATION

\* C6 (as claimed): a getSpacingVariables / getBorderRadiusVariables call without
\* forceRefresh that arrives less than 5 minutes after a populate for its key has
\* completed returns the cached list at once and starts no aggregation, however
\* long that populate's aggregation took.
C6_HitWithinTTLOfPopulate ==
    [][/\ \A c \in Calls :
            (Suspends(c) /\ calls'[c].fn \in TokenFns /\ ~calls'[c].force)
            => ~populatedWithinTTL(categoryOf(calls'[c].fn), calls'[c].key)
       /\ (ReturnsAtOnce /\ returned'.fn \in TokenFns)
            => returned'.tokens = cachedTokens(categoryOf(returned'.fn), returned'.key)]_vars

\* C7 (as claimed): a getSpacingVariables / getBorderRadiusVariables call that
\* arrives with forceRefresh, or 5 minutes or more after the timestamp of the
\* cached entry for its key, does not return the cached list at once: it starts a
\* new aggregation.
C7_ExpiryAndForceReaggregate ==
    [][(ReturnsAtOnce /\ returned'.fn \in TokenFns)
          => /\ ~returned'.force
             /\ now - entryTimestamp(categoryOf(returned'.fn), returned'.key)
                   < CACHE_DURATION]_vars

-----------------------------------------------------------------------------
(* C8: deduplication in the aggregator *)

\* the records the stubs from position pos on yield when imported: those whose
\* import does not fail
RECURSIVE importedFrom(_, _, _)
importedFrom(relevant, pos, failed) ==
    IF pos > Len(relevant) THEN << >>
    ELSE (IF pos \in failed THEN << >> ELSE << importVariableByKey(relevant[pos].key) >>)
         \o importedFrom(relevant, pos + 1, failed)

\* every record the sources yield under these failures, in source order: the local
\* records, then each library collection in listing order
yieldedBy(fail) ==
    (IF fail.local THEN << >> ELSE localVariables)
    \o (IF fail.listing THEN << >>
        ELSE Concat([ci \in 1..Len(libraryCollections) |->
                        IF ci \in fail.collections THEN << >>
                        ELSE importedFrom(relevantVariables(libraryCollections[ci]), 1,
                                          fail.imports[ci])]))

\* the records of a list whose key no earlier record of the list has
firstSeen(records) ==
    SelectSeq([i \in 1..Len(records) |->
                  IF \E j \in 1..(i - 1) : records[j].key = records[i].key
                  THEN Null ELSE records[i]],
              LAMBDA r : r # Null)

\* C8: whatever the sources hold and whichever host calls fail, the list the
\* aggregator returns has no two records of the same key, and it is the list of the
\* yielded records with, for each key, only the record of the first source that
\* yielded it (local before libraries, libraries and stubs in listing order).
C8_DedupFirstSeen ==
    /\ \A i, j \in 1..Len(allVariables) :
          allVariables[i].key = allVariables[j].key => i = j
    /\ \E fail \in Failures : allVariables = firstSeen(yieldedBy(fail))
    /\ \A fail \in Failures :
          getAllVariablesAndImportLibraries(fail) = firstSeen(yieldedBy(fail))

\* C8 witness: an aggregation has returned a list holding once a key that two
\* sources yielded
C8_Witness ==
    /\ returned.aggregated
    /\ allVariables # << >>
    /\ allVariables = getAllVariablesAndImportLibraries(NoFailure)
    /\ \E i, j \in 1..Len(yieldedBy(NoFailure)) :
          /\ i < j
          /\ yieldedBy(NoFailure)[i].key = yieldedBy(NoFailure)[j].key
          /\ Cardinality({k \in 1..Len(allVariables) :
                             allVariables[k].key = yieldedBy(NoFailure)[i].key}) = 1

-----------------------------------------------------------------------------
(* C9, C10: detect, fix, detect, revert *)

\* the positions of a token list whose token has this value
tokensOfValue(tokens, v) == {j \in 1..Len(tokens) : tokens[j].value = v}

\* the issues of a list for this node and property category
issuesFor(issues, n, property) ==
    {i \in 1..Len(issues) : issues[i].node = n /\ issues[i].property = property}

\* the console log reports this bind / unbind of the node's property as done
loggedDone(log, n, p) ==
    \E i \in 1..Len(log) : log[i].node = n /\ log[i].property = p /\ log[i].ok

\* the node's itemSpacing is positive and unbound and the token list has its value
gapFixable(n, tokens) ==
    /\ value[n]["itemSpacing"] > 0
    /\ boundVariables[n]["itemSpacing"] = NoBinding
    /\ tokensOfValue(tokens, value[n]["itemSpacing"]) # {}

C10_UnfixableUntouched ==
    [][(Returns /\ returned'.fn \in FixFns) =>
          /\ \A i \in 1..Len(returned'.issues) :
                returned'.issues[i].matchingToken = Null =>
                   \A p \in Range(propsToBind(returned'.issues[i].property)) :
                      /\ value'[returned'.issues[i].node][p] = value[returned'.issues[i].node][p]
                      /\ boundVariables'[returned'.issues[i].node][p] =
                            boundVariables[returned'.issues[i].node][p]
          /\ returned'.unfixable =
                Cardinality({i \in 1..Len(returned'.issues) :
                                returned'.issues[i].matchingToken = Null})]_vars

\* C10 witness: a fix has returned with an issue bound, an issue whose bind the
\* host refused, and an issue without a token, counted as the one unfixable issue,
\* whose properties are unbound and show the issue's value
C10_Witness ==
    /\ returned.fn \in FixFns
    /\ returned.unfixable = 1
    /\ Len(returned.issues) > 1
    /\ returned.fixed < Len(returned.issues) - 1
    /\ \E i \in 1..Len(returned.issues) :
          /\ returned.issues[i].matchingToken = Null
          /\ \A p \in Range(propsToBind(returned.issues[i].property)) :
                /\ boundVariables[returned.issues[i].node][p] = NoBinding
                /\ value[returned.issues[i].node][p] = returned.issues[i].currentValue

-----------------------------------------------------------------------------
(* C12 - C14: the binder *)

\* C12 (as claimed): an issue with a matching token whose bind fails is counted
\* in the unfixable count of the fix, so the fixed count and the unfixable count
\* of a fix add up to the number of issues its detection found.
C12_FailedBindCountedUnfixable ==
    [][(Returns /\ returned'.fn \in FixFns) =>
          returned'.fixed + returned'.unfixable = Len(returned'.issues)]_vars

\* the node's four corner radii are equal and positive
uniformRadius(n) ==
    /\ value[n]["topLeftRadius"] > 0
    /\ \A p \in Range(RadiusProps) : value[n][p] = value[n]["topLeftRadius"]

\* the issues of a list that are composite and have a token, by position
compositeFixable(issues) ==
    {i \in 1..Len(issues) :
        /\ issues[i].property \in {"paddingAll", "horizontalPadding", "verticalPadding",
                                   "borderRadiusAll"}
        /\ issues[i].matchingToken # Null}

\* the entries of a bind log for this node and property, by position
attempts(log, n, p) == {k \in 1..Len(log) : log[k].node = n /\ log[k].property = p}

\* C11: for a node whose four corner radii equal v > 0 and are all unbound, with a
\* radius token of value v in the token list, the detection of a radius fix emits
\* exactly one borderRadiusAll issue for the node, with a token of value v, and no
\* issue for a single corner; when the host accepts the four binds, the four
\* corners are bound to the id of the issue's token after the fix.
C11_RadiusEndToEnd ==
    [][(Returns /\ returned'.fn = "fixBorderRadiusIssues") =>
          \A n \in evaluatedRadiusNodes :
             (/\ uniformRadius(n)
              /\ unboundProps(n, Range(RadiusProps)) = Range(RadiusProps)
              /\ tokensOfValue(returned'.tokens, value[n]["topLeftRadius"]) # {}) =>
                /\ countIssues(returned'.issues, n, "borderRadiusAll") = 1
                /\ \A p \in Range(RadiusProps) : countIssues(returned'.issues, n, p) = 0
                /\ \A i \in issuesFor(returned'.issues, n, "borderRadiusAll") :
                      /\ returned'.issues[i].matchingToken # Null
                      /\ returned'.issues[i].matchingToken.value = value[n]["topLeftRadius"]
                      /\ (\A p \in Range(RadiusProps) : loggedDone(returned'.log, n, p)) =>
                            \A p \in Range(RadiusProps) :
                               /\ boundVariables'[n][p] = returned'.issues[i].matchingToken.id
                               /\ value'[n][p] = value[n][p]]_vars

\* C11 witness: a radius fix has returned one fixed borderRadiusAll issue for the
\* rectangle, every corner of which is now bound to the radius token
C11_Witness ==
    /\ returned.fn = "fixBorderRadiusIssues"
    /\ returned.fixed = 1
    /\ countIssues(returned.issues, 2, "borderRadiusAll") = 1
    /\ Len(returned.log) = 4
    /\ \A p \in Range(RadiusProps) :
          /\ loggedDone(returned.log, 2, p)
          /\ boundVariables[2][p] = "L4"
          /\ value[2][p] = 4

\* C13: a bind attempt reports success if and only if the host call did not throw
\* and the node's binding entry for the property, read back, exists and carries
\* the token's id; no exception escapes (the fix goes on to attempt every bind of
\* every issue that has a token, one log line each).
C13_BindVerified ==
    [][(Returns /\ returned'.fn \in FixFns) =>
          /\ \A k \in 1..Len(returned'.log) :
                LET e == returned'.log[k]
                IN  e.ok <=> /\ ~e.threw
                             /\ boundVariables'[e.node][e.property] # NoBinding
                             /\ boundVariables'[e.node][e.property] = e.token
          /\ \A i \in 1..Len(returned'.issues) :
                returned'.issues[i].matchingToken # Null =>
                   \A p \in Range(propsToBind(returned'.issues[i].property)) :
                      \E k \in attempts(returned'.log, returned'.issues[i].node, p) :
                         returned'.log[k].token = returned'.issues[i].matchingToken.id]_vars

\* C13 witness: a fix has returned after a bind that did not throw and was reported
\* failed, the property being left bound to another variable than the token
C13_Witness ==
    /\ returned.fn \in FixFns
    /\ \E k \in 1..Len(returned.log) :
          LET e == returned.log[k]
          IN  /\ ~e.ok
              /\ ~e.threw
              /\ boundVariables[e.node][e.property] \notin {NoBinding, e.token}

\* C14: for an issue on several edges or corners that has a token, a fix attempts
\* the bind of every edge or corner, once each, whatever the earlier ones gave; the
\* fixed count is the number of issues with a token whose binds all succeeded; an
\* edge or corner whose bind succeeded is bound to the token after the fix, also
\* when another bind of the same issue failed.
C14_CompositeNoRollback ==
    [][(Returns /\ returned'.fn \in FixFns) =>
          /\ \A i \in compositeFixable(returned'.issues) :
                \A p \in Range(propsToBind(returned'.issues[i].property)) :
                   /\ Cardinality(attempts(returned'.log, returned'.issues[i].node, p)) = 1
                   /\ loggedDone(returned'.log, returned'.issues[i].node, p) =>
                         boundVariables'[returned'.issues[i].node][p] =
                            returned'.issues[i].matchingToken.id
          /\ returned'.fixed =
                Cardinality({i \in 1..Len(returned'.issues) :
                                /\ returned'.issues[i].matchingToken # Null
                                /\ \A p \in Range(propsToBind(returned'.issues[i].property)) :
                                      loggedDone(returned'.log, returned'.issues[i].node, p)})]_vars

\* C14 witness: a fix has returned a borderRadiusAll issue that is not fixed, one
\* corner's bind having failed before the bind of a later corner succeeded, and
\* that later corner is bound to the token
C14_Witness ==
    /\ returned.fn = "fixBorderRadiusIssues"
    /\ returned.fixed = 0
    /\ compositeFixable(returned.issues) # {}
    /\ \E j, k \in 1..Len(returned.log) :
          /\ j < k
          /\ ~returned.log[j].ok
          /\ returned.log[k].ok
          /\ returned.log[j].node = returned.log[k].node
          /\ boundVariables[returned.log[j].node][returned.log[j].property] = NoBinding
          /\ boundVariables[returned.log[k].node][returned.log[k].property] =
                returned.log[k].token

-----------------------------------------------------------------------------
(* C15 - C17: the reverter *)

RevertFns == {"revertSpacingBindingsToStatic", "revertAllBindingsToStatic"}

\* node n is node a or one of its descendants
RECURSIVE under(_, _)
under(n, a) ==
    n = a \/ \E i \in 1..Len(Children(a)) : under(n, Children(a)[i])

\* the node belongs to the scope of a pass: the selected nodes and their
\* descendants, or every node of the page when nothing is selected
inScope(n) ==
    selection # << >> => \E i \in 1..Len(selection) : under(n, selection[i])

\* the properties the sweep that has just returned is about
sweptProps(fn) ==
    IF fn = "revertAllBindingsToStatic" THEN AllProps ELSE Range(SpacingProps)

\* the bound properties, among props, of the nodes in scope
boundInScope(props) ==
    {np \in Nodes \X props : inScope(np[1]) /\ boundVariables[np[1]][np[2]] # NoBinding}

\* no host call of the run that returned this log threw
noHostError(log) == \A k \in 1..Len(log) : log[k].ok

C16_RevertKeepsValue ==
    [][(Returns /\ returned'.fn \in RevertFns) =>
          /\ \A k \in 1..Len(returned'.log) :
                LET e == returned'.log[k]
                IN  e.ok => /\ boundVariables[e.node][e.property] # NoBinding
                            /\ boundVariables'[e.node][e.property] = NoBinding
                            /\ value'[e.node][e.property] = value[e.node][e.property]
          /\ \A np \in boundInScope(sweptProps(returned'.fn)) :
                nodeType[np[1]] \in {"FRAME", "RECTANGLE"} =>
                   attempts(returned'.log, np[1], np[2]) # {}
          /\ returned'.reverted + returned'.radiusReverted =
                Cardinality({k \in 1..Len(returned'.log) : returned'.log[k].ok})]_vars

\* C16 witness: a sweep has returned after reverting the rectangle's topLeftRadius,
\* which is unbound and still 4, and the frame's paddingLeft, unbound and still 8
C16_Witness ==
    /\ returned.fn = "revertAllBindingsToStatic"
    /\ loggedDone(returned.log, 2, "topLeftRadius")
    /\ loggedDone(returned.log, 1, "paddingLeft")
    /\ boundVariables[2]["topLeftRadius"] = NoBinding
    /\ value[2]["topLeftRadius"] = 4
    /\ boundVariables[1]["paddingLeft"] = NoBinding
    /\ value[1]["paddingLeft"] = 8

\* C17 (as claimed): after a revert-all (a revert-spacing) sweep in which no host
\* call threw, no spacing or radius (no spacing) property of any node in scope is
\* bound, and the reported count is the number of those properties that were bound
\* before the sweep.
C17_SweepUnbindsEverything ==
    [][(Returns /\ returned'.fn \in RevertFns /\ noHostError(returned'.log)) =>
          /\ \A n \in Nodes, p \in sweptProps(returned'.fn) :
                inScope(n) => boundVariables'[n][p] = NoBinding
          /\ returned'.reverted + returned'.radiusReverted =
                Cardinality(boundInScope(sweptProps(returned'.fn)))]_vars

-----------------------------------------------------------------------------
(* C18 - C20: the message handler *)

\* the step in which request c leaves its handler through the catch block: it was
\* suspended, it is over, and no function returned
Throws(c) == calls[c].pc = "aggregating" /\ calls'[c].pc = "idle" /\ ~Returns

\* C18: when an exception reaches the handler, the handler posts one error message
\* to the UI and one error notification, and the request is over: its slot is free
\* for the next request, whose response is the one its handler posts without any
\* error before it.
C18_HandlerCatches ==
    [][/\ \A c \in Calls :
             Throws(c) =>
                /\ Len(ui'.posted) = 1
                /\ ui'.posted[1].type = "error"
                /\ ui'.notified = << Notification(TRUE) >>
                /\ ui'.errors = ui.errors + 1
                /\ calls'[c] = IdleCall
                /\ returned' = returned
       /\ (Returns /\ ui.errors > 0) =>
             /\ ui'.errors = ui.errors
             /\ ui'.posted = << message(returned') >>
             /\ ui'.posted[1].type
                   = (IF returned'.fn = "find-all-issues" THEN "all-issues-found"
                      ELSE "spacing-issues-found")
             /\ ui'.notified = << Notification(FALSE) >>]_vars

\* C18 witness: after an error message, a detection request has been answered with
\* the issues of the page
C18_Witness ==
    /\ ui.errors = 1
    /\ Len(ui.posted) = 1
    /\ ui.posted[1].type = "spacing-issues-found"
    /\ ui.posted[1].count = 3
    /\ \A c \in Calls : calls[c] = IdleCall

\* the positions of a list whose issue has a token / has none
withToken(issues) == {i \in 1..Len(issues) : issues[i].matchingToken # Null}
withoutToken(issues) == {i \in 1..Len(issues) : issues[i].matchingToken = Null}

\* the nodes that carry an issue of the list
carriers(issues) == {n \in Nodes : \E i \in 1..Len(issues) : issues[i].node = n}

\* C19: a find-spacing-issues request that completes posts exactly one message,
\* spacing-issues-found, whose count is the number of issues found, fixableCount
\* the number of issues with a token, unfixableCount the number without, and
\* nodeCount the number of distinct nodes carrying an issue, so count =
\* fixableCount + unfixableCount and nodeCount <= count; a find-all-issues request
\* posts exactly one all-issues-found with the same relations over both lists and
\* totalCount = spacingCount + borderRadiusCount.
C19_FindResponseCounts ==
    [][/\ (Returns /\ returned'.fn = "find-spacing-issues") =>
             /\ Len(ui'.posted) = 1
             /\ LET m == ui'.posted[1]
                    issues == returned'.issues
                IN  /\ m.type = "spacing-issues-found"
                    /\ m.count = Len(issues)
                    /\ m.fixableCount = Cardinality(withToken(issues))
                    /\ m.unfixableCount = Cardinality(withoutToken(issues))
                    /\ m.count = m.fixableCount + m.unfixableCount
                    /\ m.nodeCount = Cardinality(carriers(issues))
                    /\ m.nodeCount <= m.count
       /\ (Returns /\ returned'.fn = "find-all-issues") =>
             /\ Len(ui'.posted) = 1
             /\ LET m == ui'.posted[1]
                    spacing == returned'.issues
                    radius == returned'.radiusIssues
                IN  /\ m.type = "all-issues-found"
                    /\ m.spacingCount = Len(spacing)
                    /\ m.borderRadiusCount = Len(radius)
                    /\ m.totalCount = m.spacingCount + m.borderRadiusCount
                    /\ m.fixableCount = Cardinality(withToken(spacing))
                                        + Cardinality(withToken(radius))
                    /\ m.unfixableCount = Cardinality(withoutToken(spacing))
                                          + Cardinality(withoutToken(radius))
                    /\ m.totalCount = m.fixableCount + m.unfixableCount
                    /\ m.nodeCount = Cardinality(carriers(spacing) \cup carriers(radius))
                    /\ m.nodeCount <= m.totalCount]_vars

\* C19 witness: all-issues-found has been posted for spacing and radius issues,
\* with and without a token, more issues than nodes
C19_Witness ==
    /\ returned.fn = "find-all-issues"
    /\ Len(ui.posted) = 1
    /\ ui.posted[1].type = "all-issues-found"
    /\ ui.posted[1].spacingCount > 0
    /\ ui.posted[1].borderRadiusCount > 0
    /\ ui.posted[1].fixableCount > 0
    /\ ui.posted[1].unfixableCount > 0
    /\ ui.posted[1].nodeCount < ui.posted[1].totalCount

\* the categories find-all-issues in slot c waits for before and after the step
pendingBefore(c) ==
    IF calls[c].fn = "find-all-issues" THEN calls[c].pending ELSE {"spacing", "radius"}

pendingAfter(c) ==
    IF calls'[c].fn = "find-all-issues" THEN calls'[c].pending ELSE {}

\* the step is one of find-all-issues in slot c
findAllStep(c) ==
    \/ calls[c].fn = "find-all-issues"
    \/ calls'[c].fn = "find-all-issues"
    \/ ReturnsAtOnce /\ returned'.fn = "find-all-issues"

\* the issue lists of the walks of a category that ran in this step
walkedNow(category) ==
    (IF category = "spacing" /\ Returns /\ returned'.fn \in SpacingDetectFns
     THEN {returned'.issues} ELSE {})
    \cup
    { (IF calls'[c].fn = "find-all-issues"
       THEN (IF category = "spacing" THEN calls'[c].issues ELSE calls'[c].radiusIssues)
       ELSE (IF category = "spacing" THEN returned'.issues ELSE returned'.radiusIssues)) :
      c \in {d \in Calls : /\ findAllStep(d)
                           /\ ~Throws(d)
                           /\ category \in pendingBefore(d)
                           /\ category \notin pendingAfter(d)} }

\* the node has something for the detector of the category to report
hasUnbound(n, category) ==
    IF category = "spacing"
    THEN /\ isAutoLayoutNode(n)
         /\ layoutMode[n] # "NONE"
         /\ value[n]["itemSpacing"] > 0
         /\ boundVariables[n]["itemSpacing"] = NoBinding
    ELSE /\ isBorderRadiusNode(n)
         /\ \E p \in Range(RadiusProps) :
               value[n][p] > 0 /\ boundVariables[n][p] = NoBinding

\* C20: the nodes a detection walk evaluates are the selected nodes and their
\* descendants when the selection, as it is when the walk runs, is not empty, and
\* every node of the page when it is empty: every node of that set that has an
\* unbound value to report carries an issue of the walk, and no node outside the
\* set carries an issue or gets a marker.
C20_ScopeSelection ==
    [][\A category \in {"spacing", "radius"} :
          \A issues \in walkedNow(category) :
             /\ \A i \in 1..Len(issues) : inScope(issues[i].node)
             /\ \A n \in Nodes :
                   (inScope(n) /\ hasUnbound(n, category)) => n \in carriers(issues)
             /\ \A k \in 1..Len(markers') :
                   markers'[k] \notin Range(markers) => inScope(markers'[k].markerFor)]_vars

\* C20 witness: with frame 1 selected, find-all-issues has returned issues for
\* frame 1 and its rectangle only, and the page carries markers for those two only
C20_Witness ==
    /\ returned.fn = "find-all-issues"
    /\ selection = << 1 >>
    /\ carriers(returned.issues) = {1}
    /\ carriers(returned.radiusIssues) = {2}
    /\ {markers[k].markerFor : k \in 1..Len(markers)} = {1, 2}

-----------------------------------------------------------------------------
(* C24: failure isolation in the aggregator *)

keysOf(records) == {records[i].key : i \in 1..Len(records)}

\* C24 (as claimed): whichever host calls of an aggregation fail (the read of the
\* local variables, the listing of the library collections, the listing of one
\* collection, the import of one stub), the list it returns holds a record for
\* every key that the sources, collections and stubs that did not fail yield.
C24_FailureIsolation ==
    returned.aggregated =>
        \A fail \in Failures :
            allVariables = getAllVariablesAndImportLibraries(fail) =>
                keysOf(yieldedBy(fail)) \subseteq keysOf(allVariables)

-----------------------------------------------------------------------------
(* C25 - C27: the aggregation host call by host call *)

\* the baseline capability is absent
absent == ~caps.hasVariablesAPI \/ ~caps.hasImportVariableByKey

\* an issue list without its tokens
bare(issues) ==
    [i \in 1..Len(issues) |->
        [node |-> issues[i].node, property |-> issues[i].property,
         currentValue |-> issues[i].currentValue]]

\* C25: when the variables API or importVariableByKeyAsync is absent, the
\* aggregation returns the empty list without a host call, also when the local
\* variables could be read; a detection then still emits the issues it emits with
\* tokens, each with no matching token; a fix binds nothing and reports 0 fixed.
C25_CapabilityAbsence ==
    [][absent =>
          /\ \A c \in Calls :
                /\ runs'[c].pc \in {"idle", "done"}
                /\ runs'[c].hostCalls = 0
                /\ runs'[c].acc.list = << >>
          /\ (Returns /\ returned'.fn \in SpacingDetectFns) =>
                /\ returned'.tokens = << >>
                /\ \A i \in 1..Len(returned'.issues) :
                      returned'.issues[i].matchingToken = Null
                /\ bare(returned'.issues)
                      = bare(spacingWalk(classify(localVariables, "spacing", "all")))
          /\ (Returns /\ returned'.fn = "fixSpacingIssues") =>
                /\ returned'.fixed = 0
                /\ returned'.log = << >>
                /\ boundVariables' = boundVariables
                /\ value' = value]_vars

\* C25 witness: without importVariableByKeyAsync, though the local variables
\* (with a token of 8) can be read, a fix that ran the aggregation found the
\* unbound gap of 8 and fixed nothing
C25_Witness ==
    /\ ~caps.hasImportVariableByKey
    /\ caps.hasGetLocalVariables
    /\ returned.fn = "fixSpacingIssues"
    /\ returned.aggregated
    /\ \E i \in 1..Len(returned.issues) :
          /\ returned.issues[i].node = 1
          /\ returned.issues[i].currentValue = 8
          /\ returned.issues[i].matchingToken = Null
    /\ returned.fixed = 0
    /\ boundVariables[1]["itemSpacing"] = NoBinding

\* request c's run asks the host for imports in this step
startsBatch(c) ==
    /\ runs'[c].pc = "batch"
    /\ runs'[c].outstanding # {}
    /\ runs[c].pc # "batch" \/ runs[c].outstanding = {}

\* C26: at most 5 imports of a run are outstanding at any time; when the imports
\* of a batch are asked for, none of an earlier batch is outstanding and every
\* record an earlier batch resolved is in the list; a run moves to the next
\* library collection only from the one before it, with no import outstanding.
C26_BoundedBatches ==
    /\ [](\A c \in Calls : Cardinality(runs[c].outstanding) <= 5)
    /\ [][\A c \in Calls :
            /\ startsBatch(c) =>
                  /\ runs[c].outstanding = {}
                  /\ \A pos \in DOMAIN runs[c].results :
                        runs[c].results[pos] # Null =>
                            runs[c].results[pos].key \in runs'[c].acc.keys
            /\ (runs'[c].pc # "idle" /\ runs'[c].ci # runs[c].ci) =>
                  /\ runs'[c].ci = runs[c].ci + 1
                  /\ runs[c].outstanding = {}
                  /\ runs'[c].outstanding = {}]_vars

\* C26 witness: the imports of a second batch are outstanding, after a first batch
\* of five stubs has put records in the list
C26_Witness ==
    \E c \in Calls :
        /\ runs[c].pc = "batch"
        /\ runs[c].from = 6
        /\ runs[c].outstanding # {}
        /\ \E i \in 1..Len(runs[c].acc.list) : runs[c].acc.list[i].id \in {"PD", "PE", "PC"}

\* C27: every stub an import is asked for has a name that matches the spacing or
\* the radius pattern, and a key that is not among the processed keys when its
\* batch starts.
C27_PrefilterBeforeResolve ==
    [][\A c \in Calls :
          startsBatch(c) =>
              \A pos \in runs'[c].outstanding :
                  LET stub == relevantVariables(libraryCollections[runs'[c].ci])[pos]
                  IN  /\ isSpacingName(stub.name) \/ isBorderRadiusName(stub.name)
                      /\ stub.key \notin runs'[c].acc.keys]_vars

\* C27 witness: the first batch of libA is outstanding; libA lists a stub with a
\* color name, and the key of one of its spacing stubs is processed already (the
\* local variable of the same key): neither is asked for
C27_Witness ==
    \E c \in Calls :
        /\ runs[c].pc = "batch"
        /\ runs[c].ci = 1
        /\ runs[c].from = 1
        /\ runs[c].outstanding # {}
        /\ "kA" \in runs[c].acc.keys
        /\ \A pos \in runs[c].outstanding :
              relevantVariables(libraryCollections[1])[pos].key \notin {"kA", "kX"}
        /\ \E i \in 1..Len(libraryCollections[1].variables) :
              libraryCollections[1].variables[i].key = "kX"

-----------------------------------------------------------------------------
(* C22, C28: the token list and the token index *)

\* the positions of the aggregator's list that hold the variable of this id
sourcesOf(all, id) == {i \in 1..Len(all) : all[i].id = id}

\* the token was made from this variable, and the variable passes for the category
madeFrom(token, v, category) ==
    /\ v.id = token.id
    /\ v.key = token.key
    /\ v.name = token.name
    /\ v.resolvedType = "FLOAT"
    /\ Len(v.modes) >= 1
    /\ v.modes[1].kind = "number"
    /\ token.value = v.modes[1].v
    /\ token.value >= 0
    /\ IF category = "spacing" THEN isSpacingName(v.name) ELSE isBorderRadiusName(v.name)

\* C22: every token of the list getSpacingVariables / getBorderRadiusVariables
\* returns after an aggregation comes from a FLOAT variable of the aggregator's
\* list that has a mode, carries that variable's first-mode value, a number >= 0,
\* and a name that matches the pattern of the category; the tokens are in the
\* order of the aggregator's list; the list is the one the cache then holds. A
\* call served from the cache returns the list the cache holds.
C22_FilterPurity ==
    [][(Returns /\ returned'.fn \in TokenFns) =>
          LET category == categoryOf(returned'.fn)
              tokens   == returned'.tokens
              cached   == IF variant = "single" THEN cachedSpacingTokens'
                          ELSE IF category = "spacing"
                          THEN cachedSpacingTokensByCollection'[returned'.key]
                          ELSE cachedBorderRadiusTokensByCollection'[returned'.key]
          IN  /\ tokens = cached
              /\ returned'.aggregated =>
                    /\ \A j \in 1..Len(tokens) :
                          \E i \in sourcesOf(allVariables', tokens[j].id) :
                              madeFrom(tokens[j], allVariables'[i], category)
                    /\ \A j, k \in 1..Len(tokens) :
                          j < k => \A i \in sourcesOf(allVariables', tokens[j].id),
                                      l \in sourcesOf(allVariables', tokens[k].id) : i < l
              /\ ~returned'.aggregated => UNCHANGED caches]_vars

\* C22 witness: a radius list was returned after an aggregation whose list holds
\* the FLOAT variables of negative value, alias value and no mode, and the STRING
\* variable with a radius name; the list is the local token (value 4 of its first
\* mode, 6 in its second) and then the published one
C22_Witness ==
    /\ returned.fn = "getBorderRadiusVariables"
    /\ returned.aggregated
    /\ returned.key = "all"
    /\ \A id \in {"LN", "LX", "LM", "LS"} : sourcesOf(allVariables, id) # {}
    /\ Len(returned.tokens) = 2
    /\ returned.tokens[1].id = "L4" /\ returned.tokens[1].value = 4
    /\ returned.tokens[2].id = "PK"

\* the token comes from a local variable
isLocalToken(token) == \E i \in 1..Len(localVariables) : localVariables[i].id = token.id

\* C28: in the token list a detection used, the tokens of local variables come
\* before the tokens of published ones; when tokens of the list share the value
\* of an issue, the issue's matchingToken is the last of them in the list, so a
\* published token of a value is preferred to a local token of the same value.
C28_LastTokenOfValueWins ==
    [][(Returns /\ returned'.fn \in {"find-spacing-issues", "findBorderRadiusIssues"}) =>
          LET tokens == returned'.tokens
              issues == returned'.issues
          IN  /\ \A j, k \in 1..Len(tokens) :
                    (j < k /\ isLocalToken(tokens[k])) => isLocalToken(tokens[j])
              /\ \A i \in 1..Len(issues) :
                    LET same == tokensOfValue(tokens, issues[i].currentValue)
                    IN  same # {} =>
                          /\ issues[i].matchingToken = tokens[Max(same)]
                          /\ (\E j \in same : ~isLocalToken(tokens[j]))
                                => ~isLocalToken(issues[i].matchingToken)]_vars

\* C28 witness: a spacing detection has matched the gap of 8 of frame 1 with the
\* published token of 8, the list holding the local token of 8 before it
C28_Witness ==
    /\ returned.fn = "find-spacing-issues"
    /\ \E i \in 1..Len(returned.issues) :
          /\ returned.issues[i].node = 1
          /\ returned.issues[i].currentValue = 8
          /\ returned.issues[i].matchingToken.id = "PC"
    /\ \E j, k \in 1..Len(returned.tokens) :
          /\ j < k
          /\ returned.tokens[j].id = "A" /\ returned.tokens[j].value = 8
          /\ returned.tokens[k].id = "PC"

-----------------------------------------------------------------------------
(* C29: combined detection *)

\* the token list a detector of the category finds under "all" once the step is done
listAfter(category) ==
    IF category = "spacing" THEN cachedSpacingTokensByCollection'["all"]
    ELSE cachedBorderRadiusTokensByCollection'["all"]

\* C29: on a document nobody edits, whichever of its two detectors resumed first,
\* findAllIssues returns the spacing list findSpacingIssues returns alone and the
\* radius list findBorderRadiusIssues returns alone with the same token lists,
\* each the walk of the document with the token list of its category; the totals
\* posted are the sums over the two lists.
C29_CombinedIsOrderIndependent ==
    [][(Returns /\ variant = "byCollection") =>
          /\ returned'.fn = "find-spacing-issues" =>
                returned'.issues = spacingWalk(listAfter("spacing"))
          /\ returned'.fn = "findBorderRadiusIssues" =>
                returned'.issues = radiusWalk(listAfter("radius"))
          /\ returned'.fn = "find-all-issues" =>
                /\ returned'.issues = spacingWalk(listAfter("spacing"))
                /\ returned'.radiusIssues = radiusWalk(listAfter("radius"))
                /\ Len(ui'.posted) = 1
                /\ ui'.posted[1].totalCount
                      = Len(returned'.issues) + Len(returned'.radiusIssues)
                /\ ui'.posted[1].fixableCount
                      = Len(fixableIssues(returned'.issues))
                        + Len(fixableIssues(returned'.radiusIssues))
                /\ ui'.posted[1].unfixableCount
                      = Len(unfixableIssues(returned'.issues))
                        + Len(unfixableIssues(returned'.radiusIssues))]_vars

\* C29 witness: find-all-issues has returned after both of its detectors were
\* suspended and the radius detector resumed first (its list was populated before
\* the spacing list); it reports spacing issues and a radius issue, one of the
\* spacing issues without a token
C29_Witness ==
    /\ returned.fn = "find-all-issues"
    /\ returned.aggregated
    /\ Len(returned.issues) >= 2
    /\ Len(returned.radiusIssues) >= 1
    /\ \E i \in 1..Len(returned.issues) : returned.issues[i].matchingToken = Null
    /\ ui.posted[1].totalCount = Len(returned.issues) + Len(returned.radiusIssues)
    /\ calls = [c \in Calls |-> IdleCall]
    /\ Len(markers) = 3
    /\ markers[1].type = "RECTANGLE" /\ markers[1].markerFor = 2
    /\ DOMAIN cachedSpacingTokensByCollection = {"all"}
    /\ DOMAIN cachedBorderRadiusTokensByCollection = {"all"}

-----------------------------------------------------------------------------
(* C30: the marker layer *)

\* the markers of the page that are tagged with the node
markersFor(n) == {i \in 1..Len(markers) : markers[i].markerFor = n}

-----------------------------------------------------------------------------
(* C23: the fix and the edits of the user *)

\* the properties the fix run that returns in this step has bound
boundNow == {np \in Nodes \X AllProps :
               /\ boundVariables'[np[1]][np[2]] # NoBinding
               /\ boundVariables'[np[1]][np[2]] # boundVariables[np[1]][np[2]]}

\* C23: when a fix run binds a property of a node to a token, the value the
\* property has at that moment is the value the token's variable has in its first
\* mode, and the property shows the same value after the bind, whatever the user
\* edited (a gap, the value of a variable) since the token list was cached.
C23_BindKeepsValue ==
    [][(Returns /\ returned'.fn \in FixFns) =>
          \A np \in boundNow :
              /\ value[np[1]][np[2]] = resolvedValue(boundVariables'[np[1]][np[2]])
              /\ value'[np[1]][np[2]] = value[np[1]][np[2]]]_vars

-----------------------------------------------------------------------------
(* C21: the global refresh *)

\* the step serves a list from a cache: a token list or the list of collections
servedFromCache(category) ==
    /\ Returns
    /\ ~returned'.aggregated
    /\ IF category = "collections" THEN returned'.fn = "get-collections"
       ELSE returned'.fn \in TokenFns /\ categoryOf(returned'.fn) = category

\* C21: once a refresh-variables request has been answered, a list served from a
\* cache (a token list of either category under any key, or the list of
\* collections) was not computed before that request arrived, whether or not the
\* fetch of the collections of that refresh succeeded.
C21_RefreshLeavesNothingOld ==
    [][\A category \in {"spacing", "radius", "collections"} :
          (servedFromCache(category) /\ refreshRequestedAt >= 0) =>
              populatedAt[category][returned'.key] >= refreshRequestedAt]_vars

-----------------------------------------------------------------------------
(* C31: clearMarkers *)

\* the shapes addMarkerToNode creates
createdMarkers ==
    {Marker(n, canFix, issueType) :
        n \in Nodes, canFix \in BOOLEAN, issueType \in {"spacing", "borderRadius"}}

\* the step is a run of the 'clear-markers' handler that did or posted something
clearsNow ==
    /\ ui' # ui
    /\ Len(ui'.posted) = 1
    /\ ui'.posted[1].type = "markers-cleared"
    /\ returned' = returned

\* C31: once clearMarkers has returned, no marker a detection or a fix run created
\* (ellipse or rectangle, fixable or not) is left on the page, every other shape
\* of the page is still there, in its place, and the count the function returned
\* is the number of shapes it removed.
C31_ClearRemovesAllMarkers ==
    [][clearsNow =>
          /\ \A i \in 1..Len(markers') : markers'[i] \notin createdMarkers
          /\ markers' = SelectSeq(markers, LAMBDA m : m \notin createdMarkers)
          /\ ui'.posted[1].count = Len(markers) - Len(markers')]_vars

\* C31 witness: clear-markers has removed the three markers of a combined detection
\* (rectangles and an ellipse) and the page is left with the shapes of the user
C31_Witness ==
    /\ ui.posted # << >>
    /\ ui.posted[1].type = "markers-cleared"
    /\ ui.posted[1].count = 3
    /\ returned.fn = "find-all-issues"
    /\ markers = Drawn

-----------------------------------------------------------------------------
(* C32: populates that overlap *)

\* C32: the timestamp of the spacing cache is the start of the aggregation that
\* produced the cached list: it is never replaced by the start of an aggregation
\* that began earlier; and once a refresh-variables request has been answered, a
\* list served from the cache was produced by an aggregation that started no
\* earlier than that refresh, also when a populate that began before the refresh
\* completes after it.
C32_FreshUnderOverlap ==
    [][/\ cacheTimestamp' >= cacheTimestamp
       /\ (servedFromCache("spacing") /\ refreshRequestedAt >= 0)
             => cacheTimestamp >= refreshRequestedAt]_vars


-----------------------------------------------------------------------------
(* C33: every hard-coded value in scope is reported *)

\* the pair issue that stands for a padding edge
pairOf(p) == IF p \in {"paddingLeft", "paddingRight"} THEN "horizontalPadding"
             ELSE "verticalPadding"

\* some issue of the list stands for this padding edge of the node
paddingCovered(issues, n, p) ==
    \/ countIssues(issues, n, "paddingAll") > 0
    \/ countIssues(issues, n, pairOf(p)) > 0
    \/ countIssues(issues, n, p) > 0

\* some issue of the list stands for this corner of the node
cornerCovered(issues, n, p) ==
    \/ countIssues(issues, n, "borderRadiusAll") > 0
    \/ countIssues(issues, n, p) > 0

\* C33 (as claimed): after a detection pass every padding edge of an evaluated
\* layout-enabled node that is positive and unbound is covered by an emitted issue
\* (paddingAll, the edge's pair issue or the edge's own issue), and every corner
\* radius of an evaluated radius node that is positive and unbound is covered by
\* borderRadiusAll or the corner's own issue.
C33_UnboundValuesCovered ==
    [][/\ (Returns /\ returned'.fn \in SpacingDetectFns) =>
             \A n \in evaluatedSpacingNodes : \A p \in unboundProps(n, PaddingProps) :
                value[n][p] > 0 => paddingCovered(returned'.issues, n, p)
       /\ (Returns /\ returned'.fn \in RadiusDetectFns) =>
             \A n \in evaluatedRadiusNodes : \A p \in unboundProps(n, Range(RadiusProps)) :
                value[n][p] > 0 => cornerCovered(returned'.issues, n, p)]_vars


-----------------------------------------------------------------------------
(* C34: a fix leaves bound properties alone *)

\* C34 (as claimed): in every fix run, every property of every node that was bound
\* to a variable when the run's detection walk read it is bound to the same
\* variable after the run.
C34_FixKeepsBindings ==
    [][(Returns /\ returned'.fn \in FixFns) =>
          \A n \in Nodes : \A p \in AllProps :
             boundVariables[n][p] # NoBinding => boundVariables'[n][p] = boundVariables[n][p]]_vars


-----------------------------------------------------------------------------
(* C35: a second fix finds nothing left to bind *)

\* the fix that returned last bound everything it tried to
allBindsSucceeded(result) == \A i \in 1..Len(result.log) : result.log[i].ok

\* this step is the return of a fix that follows a fix of the same kind, with the
\* same token list and no other return in between, whose binds all succeeded
SecondFix ==
    /\ Returns
    /\ returned'.fn \in FixFns
    /\ returned.fn = returned'.fn
    /\ returned.tokens = returned'.tokens
    /\ allBindsSucceeded(returned)

\* C35: when every bind of a fix run succeeds and the document and the token set
\* are otherwise unchanged, the detection pass of a fix run that follows emits no
\* issue with a matching token, and that run reports fixedCount = 0 and the
\* unfixableCount of the first.
C35_FixConverges ==
    [][SecondFix =>
          /\ fixableIssues(returned'.issues) = << >>
          /\ returned'.fixed = 0
          /\ returned'.log = << >>
          /\ returned'.unfixable = returned.unfixable]_vars

\* C35 witness: a fix run has returned without a fixable issue and with an
\* unfixable one, on a document whose every spacing value with a token was bound
\* by an earlier run
C35_Witness ==
    /\ returned.fn = "fixSpacingIssues"
    /\ returned.fixed = 0
    /\ returned.unfixable = 1
    /\ returned.log = << >>
    /\ fixableIssues(returned.issues) = << >>
    /\ value[3]["itemSpacing"] = 8
    /\ value[3]["paddingLeft"] = 15
    /\ boundVariables[3]["itemSpacing"] = "L8b"


-----------------------------------------------------------------------------
(* C36: a listed collection as filter *)

\* the id under which getAvailableCollections lists the collection that owns the
\* variable of this id: the collection's id when it is local, its key when a
\* library publishes it
descriptorOf(id) ==
    IF \E i \in 1..Len(localVariables) : localVariables[i].id = id
    THEN hostVariable(id).variableCollectionId
    ELSE libraryCollections[
            CHOOSE ci \in 1..Len(libraryCollections) :
               \E j \in 1..Len(libraryCollections[ci].variables) :
                  libraryCollections[ci].variables[j].id = id].key

\* the tokens of a category, among these variables, whose collection is listed
\* under this id
tokensOfListed(all, category, id) ==
    SelectSeq(classify(all, category, "all"), LAMBDA t : descriptorOf(t.id) = id)

\* C36 (as claimed): a detection or fix that is passed the id of a listed
\* collection, local or library, uses exactly the tokens of its category whose
\* owning collection is the one listed under that id.
C36_FilterRoundTrip ==
    [][(/\ Returns
        /\ returned'.fn \in SpacingDetectFns \cup RadiusDetectFns
        /\ returned'.aggregated
        /\ returned'.key # "all")
       => returned'.tokens = tokensOfListed(allVariables', categoryOf(returned'.fn),
                                           returned'.key)]_vars


-----------------------------------------------------------------------------
(* C37: one issue per node and property *)

\* the property names an issue can carry
IssueProperties ==
    AllProps \cup {"paddingAll", "horizontalPadding", "verticalPadding", "borderRadiusAll"}

DetectFns == {"find-spacing-issues", "findBorderRadiusIssues", "find-all-issues"}

-----------------------------------------------------------------------------
(* C38: the markers after a find *)

\* the last issue of a list for this node
lastIssueFor(issues, n) ==
    issues[Max({i \in 1..Len(issues) : issues[i].node = n})]

\* the walk that ran last in the find that returns in this step: the one
\* find-all-issues was still waiting for, the radius walk when both ran in one turn
lastWalked ==
    IF \E c \in Calls : calls[c].fn = "find-all-issues" /\ calls[c].pending = {"spacing"}
    THEN "spacing" ELSE "radius"

\* the marker addMarkerToNode draws for the last issue emitted for this node, given
\* the two lists of the request and the walk that ran last
lastMarker(spacingIssues, borderRadiusIssues, last, n) ==
    LET inSpacing == n \in uniqueNodeIds(spacingIssues)
        inRadius  == n \in uniqueNodeIds(borderRadiusIssues)
    IN  IF inRadius /\ (last = "radius" \/ ~inSpacing)
        THEN Marker(n, lastIssueFor(borderRadiusIssues, n).matchingToken # Null,
                    "borderRadius")
        ELSE Marker(n, lastIssueFor(spacingIssues, n).matchingToken # Null, "spacing")

FindFns == {"find-spacing-issues", "find-all-issues"}

\* C38: when a find-spacing-issues or find-all-issues request that ran with no
\* other request in flight completes, a node carries a marker if and only if the
\* result holds an issue for it, and that marker has the shape and the name of the
\* last issue emitted for the node during the request.
C38_MarkersMirrorFind ==
    [][(Returns /\ returned'.fn \in FindFns) =>
          \A n \in Nodes :
             LET found == n \in uniqueNodeIds(returned'.issues)
                               \cup uniqueNodeIds(returned'.radiusIssues)
                 drawn == {i \in 1..Len(markers') : markers'[i].markerFor = n}
             IN  /\ drawn # {} <=> found
                 /\ found => \A i \in drawn :
                       markers'[i] = lastMarker(returned'.issues, returned'.radiusIssues,
                                                lastWalked, n)]_vars

\* C38 witness: find-all-issues has returned a spacing issue with a token and a
\* radius issue for frame 1, the spacing walk ran last and the frame carries the
\* ellipse of a fixable spacing issue; frame 3, whose gap has no token, carries the
\* ellipse of an unfixable one
C38_Witness ==
    /\ returned.fn = "find-all-issues"
    /\ 1 \in uniqueNodeIds(returned.issues) \cap uniqueNodeIds(returned.radiusIssues)
    /\ \E i \in markersFor(1) : markers[i] = Marker(1, TRUE, "spacing")
    /\ \E i \in markersFor(3) : markers[i] = Marker(3, FALSE, "spacing")


-----------------------------------------------------------------------------
(* C39: what a find changes *)

\* this step is a step of a find-spacing-issues or find-all-issues request: it
\* arrives, one of its aggregations completes, or it returns
FindStep ==
    \/ Returns /\ returned'.fn \in FindFns
    \/ \E c \in Calls : /\ calls'[c] # calls[c]
                        /\ calls[c].fn \in FindFns \/ calls'[c].fn \in FindFns

\* the shapes of the page that are not markers of the plugin
notMarkers(ms) == SelectSeq(ms, LAMBDA m : m \notin createdMarkers)

\* C39: a find-spacing-issues or find-all-issues request changes no property
\* value, no binding, no type or layout and no parent/child relation of a node
\* that is not a marker; the only changes it makes to the document are markers
\* removed from and added to the top level of the page.
C39_FindIsReadOnly ==
    [][FindStep =>
          /\ value' = value
          /\ boundVariables' = boundVariables
          /\ nodeType' = nodeType
          /\ layoutMode' = layoutMode
          /\ selection' = selection
          /\ notMarkers(markers') = notMarkers(markers)]_vars

\* C39 witness: find-all-issues has returned issues and drawn markers on a page
\* that held three shapes of the user; the shapes are there, before the markers,
\* and nothing is bound
C39_Witness ==
    /\ returned.fn = "find-all-issues"
    /\ returned.issues # << >> /\ returned.radiusIssues # << >>
    /\ Len(markers) > Len(Drawn)
    /\ SubSeq(markers, 1, Len(Drawn)) = Drawn
    /\ \A i \in (Len(Drawn) + 1)..Len(markers) : markers[i] \in createdMarkers
    /\ boundVariables = [n \in Nodes |-> Unbound]

=============================================================================
